---- MODULE Spec2Model ----
(***************************************************************************)
(* Transcript acquisition of tldw: the transcript store, the two metadata  *)
(* cache tiers, the caption fetch with its single retry, the paid audio    *)
(* transcription fallback and the playlist batch loop.                     *)
(*                                                                         *)
(* Texts are sequences of characters (small naturals): 0 is a space, NL a  *)
(* line feed.  A subtitle file is kept as Go's strings.Split sees it: a    *)
(* sequence of blocks (split on a blank line), each a sequence of lines.   *)
(***************************************************************************)
EXTENDS Integers, Sequences, FiniteSets, TLC

\* ------------------------------------------------------------------ bounds
MaxItems == 3
MaxOps == 2
MaxSize == 4
MaxLimit == 2
MaxGoroutines == 3
MaxBlocks == 3
MaxFill == 32
MaxTracks == 2
MaxDuration == 18
MaxSplit == 4

\* --------------------------------------------------------------- alphabet
SP == 0
NL == 9
NumLine == <<7>>
TimeLine == <<8>>

IDs == {"v1", "v2"}
Goroutines == 1..MaxGoroutines
\* Path of the audio file handed to the transcription; chunk i has path i.
AudioFile == 0
NoTitle == "NoTitle"
NoLabel == "NoLabel"
Nil == "nil"

\* -------------------------------------------------------- environment sets
\* Subtitle files the download tool can leave in the cache directory.
SrtBlank == << << <<>> >> >>
SrtTwo == << <<NumLine, TimeLine, <<1>>>>, <<NumLine, TimeLine, <<SP, 2, SP>>>> >>
SrtFiles == {SrtBlank, SrtTwo}

\* Texts the transcription service can return.
WhisperTexts == {<<>>, <<2, 2>>}

\* A transcript left in the store by an earlier run.
StoredText == <<1, 1>>

\* Length of the placeholder description "Metadata fetch failed".
PlaceholderDescLen == 21
DescriptionCap == 150

\* Per-video facts the platform reports.
TitleOf(id) == "title_" \o id
ChannelOf(id) == "channel_" \o id
DurationOf(id) == IF id = "v1" THEN 59 ELSE 125
DescLenOf(id) == IF id = "v1" THEN 0 ELSE 151

\* ---------------------------------------------------------- text helpers
IsSpace(c) == c = SP \/ c = NL

RECURSIVE TrimLeft(_)
TrimLeft(s) == IF s = <<>> THEN <<>>
               ELSE IF IsSpace(Head(s)) THEN TrimLeft(Tail(s)) ELSE s

RECURSIVE TrimRight(_)
TrimRight(s) == IF s = <<>> THEN <<>>
                ELSE IF IsSpace(s[Len(s)]) THEN TrimRight(SubSeq(s, 1, Len(s) - 1)) ELSE s

TrimSpace(s) == TrimRight(TrimLeft(s))

\* strings.Contains(s, sub)
Contains(s, sub) ==
    \E i \in 1..(Len(s) - Len(sub) + 1) : SubSeq(s, i, i + Len(sub) - 1) = sub

RECURSIVE JoinLines(_)
JoinLines(lines) ==
    IF lines = <<>> THEN <<>>
    ELSE IF Len(lines) = 1 THEN lines[1]
    ELSE lines[1] \o <<NL>> \o JoinLines(Tail(lines))

\* ------------------------------------------------------ subtitle normalizer
RECURSIVE BlockText(_, _)
BlockText(blockLines, i) ==
    IF i > Len(blockLines) THEN <<>>
    ELSE (IF TrimSpace(blockLines[i]) # <<>> THEN <<TrimSpace(blockLines[i])>> ELSE <<>>)
         \o BlockText(blockLines, i + 1)

RECURSIVE parseSRT(_)
parseSRT(content) ==
    IF content = <<>> THEN <<>>
    ELSE (IF Len(Head(content)) >= 3 THEN BlockText(Head(content), 3) ELSE <<>>)
         \o parseSRT(Tail(content))

RECURSIVE DedupFrom(_, _)
DedupFrom(lines, prevLine) ==
    IF lines = <<>> THEN <<>>
    ELSE LET line == Head(lines)
             isDuplicate == prevLine # <<>> /\ (Contains(line, prevLine) \/ Contains(prevLine, line))
         IN  (IF isDuplicate THEN <<>> ELSE <<line>>) \o DedupFrom(Tail(lines), line)

removeDuplicates(lines) == DedupFrom(lines, <<>>)

\* The text processSrtTranscript derives from a subtitle file.
SrtText(content) == TrimSpace(JoinLines(removeDuplicates(parseSRT(content))))

\* ------------------------------------------------------------------ state
VARIABLES
    transcripts,      \* Transcript Store: <id>.txt in the transcripts directory
    metaFiles,        \* <id>.meta.json in the transcripts directory
    metadataCache,    \* App.metadataCache, the in-process map
    srtCache,         \* <id>*.srt in the download cache directory
    op,               \* entry point that is running, or "idle"
    pc,               \* position inside the running entry point
    vid,              \* canonical ID of the video being acquired
    fallbackWhisper,  \* the caller's pre-authorization of the paid fallback
    metadata,         \* local: metadata of the current video
    gt,               \* value returned by GetTranscriptWithStatus: text and error
    result,           \* outcome of the running entry point
    trace,            \* steps taken by the current acquisition, in order
    hadFile,          \* whether <vid>.txt existed when the acquisition started
    playlist,         \* playlistInfo.VideoURLs, as canonical IDs
    idx,              \* loop variable i of SummarizePlaylist, 1-based
    transcript,       \* SummarizePlaylist: the loop body's transcript variable
    shadow,           \* SummarizePlaylist: the transcript declared in the else block
    videoTranscripts, \* SummarizePlaylist: collected successes
    skippedVideos,    \* SummarizePlaylist: the skip list
    combined,         \* result of buildPlaylistTranscript
    processed,        \* playlist positions whose iteration has started
    yielded,          \* per position, the text its acquisition produced
    report,           \* the processing report printed after the loop
    opCount,          \* entry points run so far
    writeFaults,      \* whether writes to the transcripts directory can fail in this run
    cancelled,        \* whether the caller's context has been cancelled
    \* AI.TranscribeWithProgress
    tpc,              \* position inside the transcription operation
    fileSize,         \* info.Size() of the audio file
    whisperLimit,     \* ai.whisperLimit
    numChunks,        \* the computed number of chunks
    chunks,           \* the chunk paths: 0 is the audio file itself, i the i-th chunk file
    files,            \* the audio and chunk files that exist
    created,          \* chunk files the operation has created
    ci,               \* loop index of processAudioChunksWithProgress, 1-based
    sb,               \* the strings.Builder
    inFlight,         \* chunks whose CreateTranscription call has not returned
    submitted,        \* chunks handed to CreateTranscription, in order
    texts,            \* texts returned by CreateTranscription, in order
    failedAt,         \* index of the chunk whose open or transcription failed, 0 if none
    removeTried,      \* files os.Remove has been called on
    tresult,          \* what the transcription operation returns
    \* App.metadataMu and the goroutines calling the map accessors
    gpc,              \* per goroutine, its position in getCachedMetadata / setCachedMetadata
    garg,             \* per goroutine, the id argument of its call
    readerCount,      \* RWMutex: number of read locks held
    writerHeld,       \* RWMutex: whether the write lock is held
    sig,              \* position of the signal-handling goroutine
    cleanupPc,        \* position of the temp-directory cleanup goroutine
    entries,          \* directory entries the cleanup pass has still to remove
    leftover,         \* entries whose removal failed
    timerFired,       \* whether the cleanup grace timeout has expired
    npc,              \* position of the subtitle normalizer
    srtIn,            \* the SRT file content handed to the normalizer
    parsed,           \* the text lines parseSRT extracted
    kept,             \* the lines removeDuplicates kept
    again,            \* removeDuplicates applied to its own output
    normalized,       \* the transcript text the normalizer returns
    kind,             \* the content type ParseArgNew gives the run's input
    rawArg,           \* the raw input handed to the classifier
    parsedArg,        \* the ParsedArg the classifier returned
    ppc,              \* position of the classifier
    rawData,          \* the provider's metadata response, as decoded JSON
    extracted,        \* the HasCaptions flag Metadata sets
    epc,              \* position of the metadata decoding
    lpc,              \* per goroutine, its position in MetadataWithStatus
    lres,             \* per goroutine, the metadata its lookup returned
    fetchLog,         \* the IDs the concurrent lookups fetched, in order
    spc,              \* position of Audio.Split
    audioDuration,    \* duration of the audio, in units of 1/DurationUnit s
    splitN,           \* the numChunks argument of Audio.Split
    chunkDuration,    \* the chunkDuration Audio.Split computed
    segments          \* the start and length of every Audio.Chunk run so far

disk == <<transcripts, metaFiles, metadataCache, srtCache>>
frame == <<op, vid, fallbackWhisper, hadFile>>
batch == <<playlist, idx, transcript, shadow, videoTranscripts, skippedVideos, combined, processed,
           yielded, report>>
acquisition == <<transcripts, metaFiles, metadataCache, srtCache, op, pc, vid, fallbackWhisper,
                 metadata, gt, result, trace, hadFile, playlist, idx, transcript, shadow,
                 videoTranscripts, skippedVideos, combined, processed, yielded, report, opCount,
                 writeFaults>>
whisper == <<tpc, fileSize, whisperLimit, numChunks, chunks, files, created, ci, sb, inFlight,
             submitted, texts, failedAt, removeTried, tresult>>
locks == <<gpc, garg, readerCount, writerHeld>>
signals == <<sig, cleanupPc, entries, leftover, timerFired>>
normalizer == <<npc, srtIn, parsed, kept, again, normalized>>
classifier == <<rawArg, parsedArg, ppc>>
decoding == <<rawData, extracted, epc>>
lookups == <<lpc, lres, fetchLog>>
splitting == <<spc, audioDuration, splitN, chunkDuration, segments>>
later == <<classifier, decoding, lookups, splitting>>
side == <<signals, normalizer, kind, later>>
aux == <<whisper, locks, cancelled, side>>
vars == <<acquisition, whisper, locks, cancelled, side>>

\* ------------------------------------------------------------ file values
NoTranscript == [exists |-> FALSE, text |-> <<>>]
TranscriptFile(t) == [exists |-> TRUE, text |-> t]
NoSrt == [exists |-> FALSE, content |-> <<>>]
SrtFile(c) == [exists |-> TRUE, content |-> c]
NoMeta == [present |-> FALSE, hasCaptions |-> FALSE, title |-> NoTitle,
           channel |-> "", duration |-> 0, descLen |-> 0]
VideoMetadata(id, hc) == [present |-> TRUE, hasCaptions |-> hc, title |-> TitleOf(id),
                          channel |-> ChannelOf(id), duration |-> DurationOf(id),
                          descLen |-> DescLenOf(id)]
PlaceholderMetadata(i) == [present |-> TRUE, hasCaptions |-> FALSE, title |-> "Video " \o ToString(i),
                           channel |-> "Unknown", duration |-> 0, descLen |-> PlaceholderDescLen]

NoGt == [text |-> <<>>, err |-> Nil]
NoResult == [status |-> "none", text |-> <<>>, reason |-> Nil]
Success(t) == [status |-> "ok", text |-> t, reason |-> Nil]
Failure(r) == [status |-> "fail", text |-> <<>>, reason |-> r]
NoCombined == [title |-> "", blocks |-> <<>>]
NoReport == [printed |-> FALSE, succeeded |-> 0, total |-> 0, skipped |-> <<>>]
PlaylistTitle == "playlist"

\* ------------------------------------------------- collaborator outcomes
\* A collaborator run with a cancelled context fails: exec.CommandContext
\* does not start, or kills, the process, and the HTTP client gives up.
MetaFetchOutcomes ==
    IF cancelled THEN {[ok |-> FALSE, hasCaptions |-> FALSE]}
    ELSE {[ok |-> FALSE, hasCaptions |-> FALSE],
          [ok |-> TRUE, hasCaptions |-> FALSE],
          [ok |-> TRUE, hasCaptions |-> TRUE]}
DownloadOutcomes ==
    IF cancelled THEN {[kind |-> "downloadFailed", content |-> <<>>]}
    ELSE {[kind |-> "downloadFailed", content |-> <<>>],
          [kind |-> "noFiles", content |-> <<>>]}
         \cup {[kind |-> "file", content |-> c] : c \in SrtFiles}
TranscribeOutcomes ==
    IF cancelled THEN {[ok |-> FALSE, text |-> <<>>]}
    ELSE {[ok |-> FALSE, text |-> <<>>]}
         \cup {[ok |-> TRUE, text |-> t] : t \in WhisperTexts}
AudioOutcomes == IF cancelled THEN {FALSE} ELSE BOOLEAN
ListingOutcomes == IF cancelled THEN {FALSE} ELSE BOOLEAN

\* ------------------------------------------------------ identifier classifier
\* Inputs of the classifier are sequences of character codes (ASCII); SP
\* stands for a blank.  The words of the source are spelled out in codes: the
\* comment before each set gives them in letters.
Lower == 97..122
Upper == 65..90
Digit == 48..57
Underscore == 95
Hyphen == 45
Dot == 46
At == 64
Slash == 47
Bang == 33
IDChars == Lower \cup Upper \cup Digit \cup {Underscore, Hyphen}
HandleChars == IDChars \cup {Dot}

MatchAll(s, chars) == \A i \in 1..Len(s) : s[i] \in chars
HasPrefix(s, p) == Len(s) >= Len(p) /\ SubSeq(s, 1, Len(p)) = p
HasSuffix(s, p) == Len(s) >= Len(p) /\ SubSeq(s, Len(s) - Len(p) + 1, Len(s)) = p
TrimPrefix(s, p) == IF HasPrefix(s, p) THEN SubSeq(s, Len(p) + 1, Len(s)) ELSE s
ToLower(s) == [i \in 1..Len(s) |-> IF s[i] \in Upper THEN s[i] + 32 ELSE s[i]]
Rep(c, n) == [i \in 1..n |-> c]

\* "PL", "UC", "@", "OLAK5uy_", "RDCLAK5uy_"
PL == <<80, 76>>
UC == <<85, 67>>
AtSign == <<At>>
OLAK == <<79, 76, 65, 75, 53, 117, 121, 95>>
RDCLAK == <<82, 68, 67, 76, 65, 75, 53, 117, 121, 95>>

\* help, version, transcribe, cp, metadata, mcp, config, paths, init, list, show, get, set, run, start, stop, status, info, debug
knownCommands ==
    {<<104, 101, 108, 112>>, <<118, 101, 114, 115, 105, 111, 110>>,
     <<116, 114, 97, 110, 115, 99, 114, 105, 98, 101>>, <<99, 112>>,
     <<109, 101, 116, 97, 100, 97, 116, 97>>, <<109, 99, 112>>,
     <<99, 111, 110, 102, 105, 103>>, <<112, 97, 116, 104, 115>>, <<105, 110, 105, 116>>,
     <<108, 105, 115, 116>>, <<115, 104, 111, 119>>, <<103, 101, 116>>, <<115, 101, 116>>,
     <<114, 117, 110>>, <<115, 116, 97, 114, 116>>, <<115, 116, 111, 112>>,
     <<115, 116, 97, 116, 117, 115>>, <<105, 110, 102, 111>>, <<100, 101, 98, 117, 103>>}

\* install, update, remove, delete, create, add, edit, modify, change, reset, clear, clean
commandLikeWords ==
    {<<105, 110, 115, 116, 97, 108, 108>>, <<117, 112, 100, 97, 116, 101>>,
     <<114, 101, 109, 111, 118, 101>>, <<100, 101, 108, 101, 116, 101>>,
     <<99, 114, 101, 97, 116, 101>>, <<97, 100, 100>>, <<101, 100, 105, 116>>,
     <<109, 111, 100, 105, 102, 121>>, <<99, 104, 97, 110, 103, 101>>,
     <<114, 101, 115, 101, 116>>, <<99, 108, 101, 97, 114>>, <<99, 108, 101, 97, 110>>}

\* help, version, config, settings, options, default, example, test, demo, sample, invalid, error, command, input, output, file, directory, path, user, admin, system, server, client, local
commonWords ==
    {<<104, 101, 108, 112>>, <<118, 101, 114, 115, 105, 111, 110>>,
     <<99, 111, 110, 102, 105, 103>>, <<115, 101, 116, 116, 105, 110, 103, 115>>,
     <<111, 112, 116, 105, 111, 110, 115>>, <<100, 101, 102, 97, 117, 108, 116>>,
     <<101, 120, 97, 109, 112, 108, 101>>, <<116, 101, 115, 116>>, <<100, 101, 109, 111>>,
     <<115, 97, 109, 112, 108, 101>>, <<105, 110, 118, 97, 108, 105, 100>>,
     <<101, 114, 114, 111, 114>>, <<99, 111, 109, 109, 97, 110, 100>>,
     <<105, 110, 112, 117, 116>>, <<111, 117, 116, 112, 117, 116>>, <<102, 105, 108, 101>>,
     <<100, 105, 114, 101, 99, 116, 111, 114, 121>>, <<112, 97, 116, 104>>,
     <<117, 115, 101, 114>>, <<97, 100, 109, 105, 110>>, <<115, 121, 115, 116, 101, 109>>,
     <<115, 101, 114, 118, 101, 114>>, <<99, 108, 105, 101, 110, 116>>,
     <<108, 111, 99, 97, 108>>}

\* suffixes of isCommonWordPattern: command, invalid, error, test
commonSuffixes ==
    {<<99, 111, 109, 109, 97, 110, 100>>, <<105, 110, 118, 97, 108, 105, 100>>,
     <<101, 114, 114, 111, 114>>, <<116, 101, 115, 116>>}

\* prefixes of isCommonWordPattern: invalid, error, test, example
commonPrefixes ==
    {<<105, 110, 118, 97, 108, 105, 100>>, <<101, 114, 114, 111, 114>>,
     <<116, 101, 115, 116>>, <<101, 120, 97, 109, 112, 108, 101>>}

\* invalidcommand, testcommand, errorcommand, defaultvalue, exampletext, sampledata, placeholder, randomtext
commonPatterns ==
    {<<105, 110, 118, 97, 108, 105, 100, 99, 111, 109, 109, 97, 110, 100>>,
     <<116, 101, 115, 116, 99, 111, 109, 109, 97, 110, 100>>,
     <<101, 114, 114, 111, 114, 99, 111, 109, 109, 97, 110, 100>>,
     <<100, 101, 102, 97, 117, 108, 116, 118, 97, 108, 117, 101>>,
     <<101, 120, 97, 109, 112, 108, 101, 116, 101, 120, 116>>,
     <<115, 97, 109, 112, 108, 101, 100, 97, 116, 97>>,
     <<112, 108, 97, 99, 101, 104, 111, 108, 100, 101, 114>>,
     <<114, 97, 110, 100, 111, 109, 116, 101, 120, 116>>}

\* UU, FL, RD, LP, BP, QL, SV, EL, LL, UC
nonPLPrefixes ==
    {<<85, 85>>, <<70, 76>>, <<82, 68>>, <<76, 80>>, <<66, 80>>, <<81, 76>>, <<83, 86>>,
     <<69, 76>>, <<76, 76>>, <<85, 67>>}

\* videoIDPattern `^[A-Za-z0-9_-]{11}$`
detectVideoID(s) == Len(s) = 11 /\ MatchAll(s, IDChars)

\* playlistIDPattern `^PL[A-Za-z0-9_-]{16}$|^PL[A-Za-z0-9_-]{32}$`
detectPlaylistID(s) ==
    /\ HasPrefix(s, PL)
    /\ Len(s) - 2 \in {16, 32}
    /\ MatchAll(TrimPrefix(s, PL), IDChars)

\* channelIDPattern `^UC[A-Za-z0-9_-]{22}$`
detectChannelID(s) ==
    /\ HasPrefix(s, UC)
    /\ Len(s) - 2 = 22
    /\ MatchAll(TrimPrefix(s, UC), IDChars)

\* channelHandlePattern `^@?[A-Za-z0-9._-]{3,30}$`, then the length test on
\* the handle without its @.
detectChannelHandle(s) ==
    LET handle == TrimPrefix(s, AtSign)
    IN  /\ \/ (HasPrefix(s, AtSign) /\ Len(s) - 1 \in 3..30
                  /\ MatchAll(SubSeq(s, 2, Len(s)), HandleChars))
           \/ (Len(s) \in 3..30 /\ MatchAll(s, HandleChars))
        /\ Len(handle) >= 3
        /\ Len(handle) <= 30

\* commandPattern `^[a-z]{2,15}$`, then the two vocabularies.
detectCommand(s) ==
    /\ Len(s) \in 2..15
    /\ MatchAll(s, Lower)
    /\ \/ \E cmd \in knownCommands : cmd = s \/ Contains(cmd, s) \/ Contains(s, cmd)
       \/ \E word \in commandLikeWords : Contains(word, s) \/ Contains(s, word)

containsDigit(s) == \E i \in 1..Len(s) : s[i] \in Digit

isCommonWordPattern(s0) ==
    LET s == ToLower(s0)
    IN  \/ \E w \in commonSuffixes : HasSuffix(s, w)
        \/ \E w \in commonPrefixes : HasPrefix(s, w)
        \/ s \in commonPatterns

isLikelyYouTubeChannelHandle(s) ==
    LET handle == TrimPrefix(s, AtSign)
    IN  /\ detectChannelHandle(s)
        /\ ~detectCommand(handle)
        /\ ToLower(handle) \notin commonWords
        /\ ~containsDigit(handle) => (Len(handle) <= 10 /\ ~isCommonWordPattern(handle))

\* Variant: the command vocabulary is consulted before the video-ID pattern.
detectContentTypeCommandFirst(s0) ==
    LET s == TrimSpace(s0)
    IN  IF detectCommand(s) THEN "command"
        ELSE IF detectVideoID(s) THEN "video"
        ELSE IF detectChannelID(s) THEN "channel"
        ELSE IF detectPlaylistID(s) THEN "playlist"
        ELSE IF isLikelyYouTubeChannelHandle(s) THEN "channel"
        ELSE "unknown"

\* detectContentType: the first pattern that matches decides.
detectContentType(s0) ==
    LET s == TrimSpace(s0)
    IN  IF detectVideoID(s) THEN "video"
        ELSE IF detectChannelID(s) THEN "channel"
        ELSE IF detectPlaylistID(s) THEN "playlist"
        ELSE IF detectCommand(s) THEN "command"
        ELSE IF isLikelyYouTubeChannelHandle(s) THEN "channel"
        ELSE "unknown"

\* IsValidPlaylistID: the PL pattern, the other prefixes at 18 or 34
\* characters, the music-mix prefixes at 40.
IsValidPlaylistID(id) ==
    IF HasPrefix(id, PL) THEN detectPlaylistID(id)
    ELSE IF \E prefix \in nonPLPrefixes : HasPrefix(id, prefix) /\ Len(id) \in {18, 34}
    THEN id # <<>> /\ MatchAll(id, IDChars)
    ELSE IF (HasPrefix(id, OLAK) \/ HasPrefix(id, RDCLAK)) /\ Len(id) = 40
    THEN id # <<>> /\ MatchAll(id, IDChars)
    ELSE FALSE

\* A ParsedArg: the normalized URL is the format string and the text put in
\* it; err is Nil or the message's format string.
NoURL == <<"", <<>>>>
Invalid(ct, msg) == [contentType |-> ct, url |-> NoURL, id |-> <<>>, err |-> msg]
Valid(ct, template, id) == [contentType |-> ct, url |-> <<template, id>>, id |-> id, err |-> Nil]
NoParsedArg == Invalid("none", Nil)
WatchTemplate == "https://www.youtube.com/watch?v=%s"
PlaylistTemplate == "https://www.youtube.com/playlist?list=%s"
ChannelTemplate == "https://www.youtube.com/channel/%s"
RootTemplate == "https://www.youtube.com/%s"
CustomTemplate == "https://www.youtube.com/c/%s"
UserTemplate == "https://www.youtube.com/user/%s"

\* strings.ToLower on the hosts the inputs use.
HostToLower(h) == IF h = "YouTube.com" THEN "youtube.com" ELSE h

\* Variant: the playlist ID is looked at before the video ID.
parseWatchURLPlaylistFirst(u) ==
    IF u.list # <<>> /\ detectPlaylistID(u.list) THEN Valid("playlist", PlaylistTemplate, u.list)
    ELSE IF u.v # <<>> /\ detectVideoID(u.v) THEN Valid("video", WatchTemplate, u.v)
    ELSE Invalid("unknown", "no valid video or playlist ID found in watch URL")

\* parseWatchURL: query v before query list.
parseWatchURL(u) ==
    IF u.v # <<>> /\ detectVideoID(u.v) THEN Valid("video", WatchTemplate, u.v)
    ELSE IF u.list # <<>> /\ detectPlaylistID(u.list) THEN Valid("playlist", PlaylistTemplate, u.list)
    ELSE Invalid("unknown", "no valid video or playlist ID found in watch URL")

parsePlaylistURL(u) ==
    IF u.list # <<>> /\ detectPlaylistID(u.list) THEN Valid("playlist", PlaylistTemplate, u.list)
    ELSE Invalid("unknown", "invalid playlist ID: %s")

parseChannelURL(u) ==
    LET channelID == TrimPrefix(u.path, <<47, 99, 104, 97, 110, 110, 101, 108, 47>>)
    IN  IF detectChannelID(channelID) THEN Valid("channel", ChannelTemplate, channelID)
        ELSE Invalid("unknown", "invalid channel ID: %s")

parseHandleURL(u) ==
    LET handle == TrimPrefix(u.path, <<Slash>>)
    IN  IF detectChannelHandle(handle) THEN Valid("channel", RootTemplate, handle)
        ELSE Invalid("unknown", "invalid channel handle: %s")

parseCustomChannelURL(u) ==
    LET channelName == TrimPrefix(u.path, <<47, 99, 47>>)
    IN  IF channelName # <<>> /\ Len(channelName) >= 3 /\ Len(channelName) <= 30
        THEN Valid("channel", CustomTemplate, channelName)
        ELSE Invalid("unknown", "invalid custom channel name: %s")

parseUserChannelURL(u) ==
    LET username == TrimPrefix(u.path, <<47, 117, 115, 101, 114, 47>>)
    IN  IF username # <<>> /\ Len(username) >= 3 /\ Len(username) <= 30
        THEN Valid("channel", UserTemplate, username)
        ELSE Invalid("unknown", "invalid username: %s")

\* parseYouTubeURL on a URL given by what url.Parse makes of it: whether it
\* parses, its host, its path and its v and list query values.
parseYouTubeURL(u) ==
    LET host == HostToLower(u.host)
    IN  IF u.malformed THEN Invalid("unknown", "invalid URL format: %w")
        ELSE IF host \notin {"www.youtube.com", "youtube.com", "youtu.be"}
        THEN Invalid("unknown", "not a YouTube URL: %s")
        ELSE IF host = "youtu.be"
        THEN LET videoID == TrimPrefix(u.path, <<Slash>>)
             IN  IF detectVideoID(videoID) THEN Valid("video", WatchTemplate, videoID)
                 ELSE Invalid("unknown", "invalid video ID in youtu.be URL: %s")
        ELSE IF HasPrefix(u.path, <<47, 119, 97, 116, 99, 104>>) THEN parseWatchURL(u)
        ELSE IF HasPrefix(u.path, <<47, 112, 108, 97, 121, 108, 105, 115, 116>>) THEN parsePlaylistURL(u)
        ELSE IF HasPrefix(u.path, <<47, 99, 104, 97, 110, 110, 101, 108, 47>>) THEN parseChannelURL(u)
        ELSE IF HasPrefix(u.path, <<47, 64>>) THEN parseHandleURL(u)
        ELSE IF HasPrefix(u.path, <<47, 99, 47>>) THEN parseCustomChannelURL(u)
        ELSE IF HasPrefix(u.path, <<47, 117, 115, 101, 114, 47>>) THEN parseUserChannelURL(u)
        ELSE Invalid("unknown", "unsupported YouTube URL path: %s")

\* Variant: a command word carries no error.
CommandRefNoError(a) == Valid("command", RootTemplate, a)

\* The reference ParseArgNew makes for a command word.
CommandRef(a) == Invalid("command", "'%s' looks like a command, not YouTube content")

\* ParseArgNew on a bare token (after TrimSpace).
ParseBare(a) ==
    LET contentType == detectContentType(a)
    IN  IF contentType = "video" THEN Valid("video", WatchTemplate, a)
        ELSE IF contentType = "playlist" THEN Valid("playlist", PlaylistTemplate, a)
        ELSE IF contentType = "channel"
        THEN IF detectChannelID(a) THEN Valid("channel", ChannelTemplate, a)
             ELSE IF detectChannelHandle(a)
             THEN LET handle == IF HasPrefix(a, AtSign) THEN a ELSE AtSign \o a
                  IN  Valid("channel", RootTemplate, handle)
             ELSE Invalid("unknown", "unexpected parsing state for '%s'")
        ELSE IF contentType = "command" THEN CommandRef(a)
        ELSE Invalid("unknown", "unable to determine content type for '%s'")

\* ParseArgNew: a raw input is a URL (it starts with http:// or https://) or
\* a bare token.
ParseArgNew(input) ==
    IF input.isURL THEN parseYouTubeURL(input) ELSE ParseBare(TrimSpace(input.token))

\* A raw input: a bare token, or a URL by its parts.
BareInput(t) ==
    [isURL |-> FALSE, token |-> t, malformed |-> FALSE, host |-> "", path |-> <<>>,
     v |-> <<>>, list |-> <<>>]
URLInput(bad, h, p, v, l) ==
    [isURL |-> TRUE, token |-> <<>>, malformed |-> bad, host |-> h, path |-> p,
     v |-> v, list |-> l]
NoInput == BareInput(<<>>)

\* A yt-dlp response by the three fields the decoder looks at: each of
\* subtitles and automatic_captions is absent, null, of another type, or a
\* map with so many tracks; the response's own flag is what the struct
\* decoding reads.
Absent == [shape |-> "absent", tracks |-> 0]
TrackMap(n) == [shape |-> "map", tracks |-> n]
FieldShapes ==
    {[shape |-> sh, tracks |-> 0] : sh \in {"absent", "null", "other"}}
        \cup {TrackMap(n) : n \in 0..MaxTracks}
OwnFlags == {"absent", "true", "false", "other"}
RawResponses ==
    [subtitles : FieldShapes, automatic_captions : FieldShapes, has_captions : OwnFlags]
\* What one MetadataWithStatus call holds: the ID it looks up, the metadata
\* it returns and whether it returns an error.
NoLookup == [id |-> "v1", m |-> NoMeta, err |-> FALSE]

NoRawData == [subtitles |-> Absent, automatic_captions |-> Absent, has_captions |-> "absent"]

\* Variant: only the manual subtitle tracks are looked at.
extractSubtitleInfoManualOnly(raw) ==
    raw.subtitles.shape = "map" /\ raw.subtitles.tracks > 0

\* extractSubtitleInfo: the type assertion to a map holds for a map only,
\* then the map must be non-empty; manual subtitles, then automatic captions.
extractSubtitleInfo(raw) ==
    IF raw.subtitles.shape = "map" /\ raw.subtitles.tracks > 0 THEN TRUE
    ELSE IF raw.automatic_captions.shape = "map" /\ raw.automatic_captions.tracks > 0
    THEN TRUE
    ELSE FALSE

\* ------------------------------------------------------------------ Init
InitState ==
    /\ transcripts \in [IDs -> {NoTranscript, TranscriptFile(StoredText)}]
    /\ metaFiles = [id \in IDs |-> NoMeta]
    /\ metadataCache = [id \in IDs |-> NoMeta]
    /\ srtCache = [id \in IDs |-> NoSrt]
    /\ op = "idle"
    /\ pc = "idle"
    /\ vid = "v1"
    /\ fallbackWhisper = FALSE
    /\ metadata = NoMeta
    /\ gt = NoGt
    /\ result = NoResult
    /\ trace = <<>>
    /\ hadFile = FALSE
    /\ playlist = <<>>
    /\ idx = 0
    /\ transcript = <<>>
    /\ shadow = <<>>
    /\ videoTranscripts = <<>>
    /\ skippedVideos = <<>>
    /\ combined = NoCombined
    /\ processed = <<>>
    /\ yielded = <<>>
    /\ report = NoReport
    /\ cancelled = FALSE
    /\ tpc = "idle"
    /\ fileSize = 1
    /\ whisperLimit = 1
    /\ numChunks = 0
    /\ chunks = <<>>
    /\ files = {AudioFile}
    /\ created = {}
    /\ ci = 0
    /\ sb = <<>>
    /\ inFlight = {}
    /\ submitted = <<>>
    /\ texts = <<>>
    /\ failedAt = 0
    /\ removeTried = {}
    /\ tresult = NoResult
    /\ gpc = [g \in Goroutines |-> "idle"]
    /\ garg = [g \in Goroutines |-> "v1"]
    /\ readerCount = 0
    /\ writerHeld = FALSE
    /\ sig = "waiting"
    /\ cleanupPc = "none"
    /\ entries = {}
    /\ leftover = {}
    /\ timerFired = FALSE
    /\ npc = "idle"
    /\ parsed = <<>>
    /\ kept = <<>>
    /\ again = <<>>
    /\ normalized = <<>>
    /\ parsedArg = NoParsedArg
    /\ ppc = "idle"
    /\ extracted = FALSE
    /\ epc = "idle"
    /\ lpc = [g \in Goroutines |-> "idle"]
    /\ lres = [g \in Goroutines |-> NoLookup]
    /\ fetchLog = <<>>
    /\ spc = "idle"
    /\ chunkDuration = 0
    /\ segments = <<>>

\* The inputs of the classifier, the metadata decoder and the splitter when
\* none of them is under study.
LaterIdle ==
    /\ rawArg = NoInput
    /\ rawData = NoRawData
    /\ audioDuration = 0
    /\ splitN = 0

IdleState ==
    /\ InitState
    /\ LaterIdle
    /\ srtIn = <<>>
    /\ kind = "video"

\* A session of single-item entry points; writes can fail.
Init ==
    /\ IdleState
    /\ opCount = 0
    /\ writeFaults = TRUE

\* One run of any entry point, the batch included; writes succeed.
InitBatch ==
    /\ IdleState
    /\ opCount = MaxOps - 1
    /\ writeFaults = FALSE

\* The transcription operation and the map accessors on their own: the store
\* is empty and stays so.
InitAux ==
    /\ IdleState
    /\ transcripts = [id \in IDs |-> NoTranscript]
    /\ opCount = 0
    /\ writeFaults = FALSE

\* Outcomes of a write to the transcripts directory.
SaveOutcomes == IF writeFaults THEN BOOLEAN ELSE {TRUE}

\* ------------------------------------------------------------ disk helpers
\* Variant: the existence test looks at a path that is never there.
FileExistsWrongPath(id) == FALSE

\* FileExists on <id>.txt.
FileExists(id) == transcripts[id].exists

\* Variant: the write reports success and stores nothing.
SaveTranscriptNowhere(id, text, ok) == transcripts

\* SaveTranscript: os.WriteFile of <id>.txt; ok is whether the write succeeds.
SaveTranscript(id, text, ok) ==
    IF ok THEN [transcripts EXCEPT ![id] = TranscriptFile(text)] ELSE transcripts

\* MetadataWithStatus / metadataWithProgressManager: in-process map, then the
\* disk file, then the external fetch with write-through to both tiers.
MetadataLookup(id, out, saveOk) ==
    IF metadataCache[id].present
    THEN [m |-> metadataCache[id], err |-> FALSE, fetched |-> FALSE,
          files |-> metaFiles, cache |-> metadataCache]
    ELSE IF metaFiles[id].present
    THEN [m |-> metaFiles[id], err |-> FALSE, fetched |-> FALSE,
          files |-> metaFiles, cache |-> [metadataCache EXCEPT ![id] = metaFiles[id]]]
    ELSE IF ~out.ok
    THEN [m |-> NoMeta, err |-> TRUE, fetched |-> TRUE,
          files |-> metaFiles, cache |-> metadataCache]
    ELSE LET m == VideoMetadata(id, out.hasCaptions)
         IN  [m |-> m, err |-> FALSE, fetched |-> TRUE,
              files |-> IF saveOk THEN [metaFiles EXCEPT ![id] = m] ELSE metaFiles,
              cache |-> [metadataCache EXCEPT ![id] = m]]

\* processSrtTranscript: normalize, save to the store, then drop the subtitle
\* file from the cache directory.  A failed save returns before the removal.
processSrtTranscript(id, content, saveOk) ==
    LET text == SrtText(content)
    IN  IF saveOk
        THEN [text |-> text, err |-> Nil, store |-> SaveTranscript(id, text, TRUE),
              srt |-> [srtCache EXCEPT ![id] = NoSrt]]
        ELSE [text |-> <<>>, err |-> "other", store |-> transcripts,
              srt |-> [srtCache EXCEPT ![id] = SrtFile(content)]]

\* YouTube.FetchTranscript: reuse a subtitle file already in the cache
\* directory, else run the download tool (YouTube.Transcript) and process
\* what it wrote.
FetchTranscript(id, dl, saveOk) ==
    IF srtCache[id].exists
    THEN processSrtTranscript(id, srtCache[id].content, saveOk)
    ELSE IF dl.kind = "downloadFailed"
    THEN [text |-> <<>>, err |-> "download", store |-> transcripts, srt |-> srtCache]
    ELSE IF dl.kind = "noFiles"
    THEN [text |-> <<>>, err |-> "other", store |-> transcripts, srt |-> srtCache]
    ELSE processSrtTranscript(id, dl.content, saveOk)

\* Variant: only an error counts as a failed fetch.
FetchFailedErrOnly(r) == r.err # Nil

\* The caller's test `err != nil || transcript == ""`.
FetchFailed(r) == r.err # Nil \/ r.text = <<>>
\* Variant: every failed fetch is taken for a retryable one.
IsDownloadFailedAnyError(r) == r.err # Nil \/ r.text = <<>>

\* errors.Is(err, ErrDownloadFailed)
IsDownloadFailed(r) == r.err = "download"

CaptionEvent(r) ==
    IF r.err = "download" THEN "captions_download"
    ELSE IF r.err = "other" THEN "captions_other"
    ELSE IF r.text = <<>> THEN "captions_empty"
    ELSE "captions_ok"

Count(s, set) == Cardinality({i \in 1..Len(s) : s[i] \in set})
Has(s, e) == \E i \in 1..Len(s) : s[i] = e
CaptionEvents == {"captions_download", "captions_other", "captions_empty", "captions_ok"}
PaidEvents == {"audio_ok", "audio_err", "transcribe_ok", "transcribe_err"}
ExternalEvents == {"meta_fetch"} \cup CaptionEvents \cup PaidEvents

\* Variant: captions are taken to be available whatever the metadata says.
CaptionsAvailableAlways(m) == TRUE

\* `if !metadata.HasCaptions`: whether the caption fetch is worth attempting.
CaptionsAvailable(m) == m.hasCaptions

\* Variant: the prompt is never shown.
NeedsConfirmationNever(fw) == FALSE

\* `if !fallbackWhisper { ... AskUser ... }`: the prompt is needed unless the
\* caller pre-authorized the paid fallback.
NeedsConfirmation(fw) == ~fw

\* ------------------------------------------------------- entry points
\* The content types ParseArgNew tells apart, as far as the entry points do.
ContentTypes == {"video", "command", "unknown"}

\* ParsedArg.IsValid
IsValid(k) == k \notin {"unknown", "command"}

\* Variant: the single-item pipeline starts at the audio download.
BeginAtAudioDownload(o, p, id, fw) ==
    /\ op = "idle"
    /\ opCount < MaxOps
    /\ op' = o
    /\ pc' = (IF p = "sy_cache" THEN "wf_audio" ELSE p)
    /\ vid' = id
    /\ fallbackWhisper' = fw
    /\ hadFile' = transcripts[id].exists
    /\ metadata' = NoMeta
    /\ gt' = NoGt
    /\ result' = NoResult
    /\ trace' = <<>>
    /\ playlist' = <<>>
    /\ idx' = 0
    /\ transcript' = <<>>
    /\ shadow' = <<>>
    /\ videoTranscripts' = <<>>
    /\ skippedVideos' = <<>>
    /\ combined' = NoCombined
    /\ processed' = <<>>
    /\ yielded' = <<>>
    /\ report' = NoReport
    /\ UNCHANGED <<disk, opCount, writeFaults, aux>>

\* The start of an entry point: a fresh frame at its first step.
Begin(o, p, id, fw) ==
    /\ op = "idle"
    /\ opCount < MaxOps
    /\ op' = o
    /\ pc' = p
    /\ vid' = id
    /\ fallbackWhisper' = fw
    /\ hadFile' = transcripts[id].exists
    /\ metadata' = NoMeta
    /\ gt' = NoGt
    /\ result' = NoResult
    /\ trace' = <<>>
    /\ playlist' = <<>>
    /\ idx' = 0
    /\ transcript' = <<>>
    /\ shadow' = <<>>
    /\ videoTranscripts' = <<>>
    /\ skippedVideos' = <<>>
    /\ combined' = NoCombined
    /\ processed' = <<>>
    /\ yielded' = <<>>
    /\ report' = NoReport
    /\ UNCHANGED <<disk, opCount, writeFaults, aux>>

\* App.GetTranscript called directly (protocol adapter's transcript tool).
StartGetTranscript == \E id \in IDs : Begin("GetTranscript", "gt_cache", id, FALSE)

\* App.SummarizeYouTube on a video reference.
StartSummarizeYouTube ==
    /\ IsValid(kind)
    /\ \E id \in IDs, fw \in BOOLEAN : Begin("SummarizeYouTube", "sy_cache", id, fw)

\* The root command on an input that is a command word or unrecognized: it
\* returns an error and App.SummarizeYouTube is not called.
RootReject ==
    /\ ~IsValid(kind)
    /\ op = "idle"
    /\ opCount < MaxOps
    /\ op' = "rootCmd"
    /\ pc' = "done"
    /\ result' = Failure("invalid input")
    /\ hadFile' = FALSE
    /\ trace' = <<>>
    /\ UNCHANGED <<disk, vid, fallbackWhisper, metadata, gt, batch, opCount, writeFaults, aux>>

\* cmd fetchTranscript (transcribe and cp commands) with its --fallback-whisper flag.
StartFetchTranscript == \E id \in IDs, fw \in BOOLEAN : Begin("fetchTranscript", "gt_cache", id, fw)

\* MCPServer.handleWhisperTranscribe.
StartWhisperTranscribe == \E id \in IDs : Begin("handleWhisperTranscribe", "wt_audio", id, FALSE)

\* MCPServer.handleGetMetadata.
StartGetMetadata == \E id \in IDs : Begin("handleGetMetadata", "md_fetch", id, FALSE)

\* App.SummarizeYouTube on a playlist reference.
StartSummarizePlaylist ==
    /\ IsValid(kind)
    /\ \E fw \in BOOLEAN : Begin("SummarizePlaylist", "pl_list", "v1", fw)

\* The entry point has returned to its caller.
Return ==
    /\ pc = "done"
    /\ op' = "idle"
    /\ pc' = "idle"
    /\ opCount' = opCount + 1
    /\ vid' = "v1"
    /\ fallbackWhisper' = FALSE
    /\ hadFile' = FALSE
    /\ metadata' = NoMeta
    /\ gt' = NoGt
    /\ result' = NoResult
    /\ trace' = <<>>
    /\ playlist' = <<>>
    /\ idx' = 0
    /\ transcript' = <<>>
    /\ shadow' = <<>>
    /\ videoTranscripts' = <<>>
    /\ skippedVideos' = <<>>
    /\ combined' = NoCombined
    /\ processed' = <<>>
    /\ yielded' = <<>>
    /\ report' = NoReport
    /\ UNCHANGED <<disk, writeFaults, aux>>

\* A new process: the in-process metadata map starts empty, the disk stays.
Restart ==
    /\ op = "idle"
    /\ \E id \in IDs : metadataCache[id].present
    /\ metadataCache' = [id \in IDs |-> NoMeta]
    /\ UNCHANGED <<transcripts, metaFiles, srtCache, op, pc, vid, fallbackWhisper, metadata,
                   gt, result, trace, hadFile, batch, opCount, writeFaults, aux>>

\* --------------------------------------------- GetTranscriptWithStatus
\* Cached transcript check and read.
GTCheckCache ==
    /\ pc = "gt_cache"
    /\ IF FileExists(vid)
       THEN \E readOk \in BOOLEAN :
              IF readOk
              THEN /\ gt' = [text |-> transcripts[vid].text, err |-> Nil]
                   /\ trace' = Append(trace, "cache_hit")
                   /\ pc' = "gt_ret"
              ELSE /\ gt' = [text |-> <<>>, err |-> "read"]
                   /\ trace' = Append(trace, "read_error")
                   /\ pc' = "gt_ret"
       ELSE /\ pc' = "gt_meta"
            /\ UNCHANGED <<gt, trace>>
    /\ UNCHANGED <<disk, frame, metadata, result, batch, opCount, writeFaults, aux>>

\* Metadata lookup; no captions ends the attempt.
GTMetadata ==
    /\ pc = "gt_meta"
    /\ \E out \in MetaFetchOutcomes, saveOk \in SaveOutcomes :
         LET r == MetadataLookup(vid, out, saveOk)
         IN  /\ metaFiles' = r.files
             /\ metadataCache' = r.cache
             /\ trace' = IF r.fetched THEN Append(trace, "meta_fetch") ELSE trace
             /\ IF r.err
                THEN gt' = [text |-> <<>>, err |-> "metadata"] /\ pc' = "gt_ret"
                ELSE IF ~CaptionsAvailable(r.m)
                THEN gt' = [text |-> <<>>, err |-> "nocaptions"] /\ pc' = "gt_ret"
                ELSE gt' = gt /\ pc' = "gt_fetch"
    /\ UNCHANGED <<transcripts, srtCache, frame, metadata, result, batch, opCount, writeFaults, aux>>

\* First caption fetch.
GTFetch ==
    /\ pc = "gt_fetch"
    /\ \E dl \in DownloadOutcomes, saveOk \in SaveOutcomes :
         LET r == FetchTranscript(vid, dl, saveOk)
         IN  /\ transcripts' = r.store
             /\ srtCache' = r.srt
             /\ trace' = Append(trace, CaptionEvent(r))
             /\ IF FetchFailed(r)
                THEN IF IsDownloadFailed(r)
                     THEN gt' = gt /\ pc' = "gt_retry"
                     ELSE gt' = [text |-> <<>>, err |-> "notranscript"] /\ pc' = "gt_ret"
                ELSE gt' = [text |-> r.text, err |-> Nil] /\ pc' = "gt_ret"
    /\ UNCHANGED <<metaFiles, metadataCache, frame, metadata, result, batch, opCount, writeFaults, aux>>

\* The single retry after the one-second sleep.
GTRetry ==
    /\ pc = "gt_retry"
    /\ \E dl \in DownloadOutcomes, saveOk \in SaveOutcomes :
         LET r == FetchTranscript(vid, dl, saveOk)
         IN  /\ transcripts' = r.store
             /\ srtCache' = r.srt
             /\ trace' = Append(trace, CaptionEvent(r))
             /\ IF FetchFailed(r)
                THEN gt' = [text |-> <<>>, err |-> "notranscript"]
                ELSE gt' = [text |-> r.text, err |-> Nil]
             /\ pc' = "gt_ret"
    /\ UNCHANGED <<metaFiles, metadataCache, frame, metadata, result, batch, opCount, writeFaults, aux>>

\* App.GetTranscript returns to the protocol adapter.
GTReturn ==
    /\ op = "GetTranscript"
    /\ pc = "gt_ret"
    /\ result' = IF gt.err = Nil THEN Success(gt.text) ELSE Failure(gt.err)
    /\ pc' = "done"
    /\ UNCHANGED <<disk, frame, metadata, gt, trace, batch, opCount, writeFaults, aux>>

\* ------------------------------------------ getTranscriptWithProgressManager
SYCheckCache ==
    /\ pc = "sy_cache"
    /\ IF FileExists(vid)
       THEN \E readOk \in BOOLEAN :
              IF readOk
              THEN /\ result' = Success(transcripts[vid].text)
                   /\ trace' = Append(trace, "cache_hit")
                   /\ pc' = "done"
              ELSE /\ result' = Failure("read")
                   /\ trace' = Append(trace, "read_error")
                   /\ pc' = "done"
       ELSE /\ pc' = "sy_meta"
            /\ UNCHANGED <<result, trace>>
    /\ UNCHANGED <<disk, frame, metadata, gt, batch, opCount, writeFaults, aux>>

\* Metadata lookup; no captions goes to the paid fallback.
SYMetadata ==
    /\ pc = "sy_meta"
    /\ \E out \in MetaFetchOutcomes, saveOk \in SaveOutcomes :
         LET r == MetadataLookup(vid, out, saveOk)
         IN  /\ metaFiles' = r.files
             /\ metadataCache' = r.cache
             /\ metadata' = r.m
             /\ trace' = IF r.fetched THEN Append(trace, "meta_fetch") ELSE trace
             /\ IF r.err
                THEN result' = Failure("metadata") /\ pc' = "done"
                ELSE IF ~CaptionsAvailable(r.m)
                THEN result' = result /\ pc' = (IF NeedsConfirmation(fallbackWhisper) THEN "wf_ask" ELSE "wf_audio")
                ELSE result' = result /\ pc' = "sy_fetch"
    /\ UNCHANGED <<transcripts, srtCache, frame, gt, batch, opCount, writeFaults, aux>>

SYFetch ==
    /\ pc = "sy_fetch"
    /\ \E dl \in DownloadOutcomes, saveOk \in SaveOutcomes :
         LET r == FetchTranscript(vid, dl, saveOk)
         IN  /\ transcripts' = r.store
             /\ srtCache' = r.srt
             /\ trace' = Append(trace, CaptionEvent(r))
             /\ IF FetchFailed(r)
                THEN IF IsDownloadFailed(r)
                     THEN result' = result /\ pc' = "sy_retry"
                     ELSE result' = Failure("notranscript") /\ pc' = "done"
                ELSE result' = Success(r.text) /\ pc' = "done"
    /\ UNCHANGED <<metaFiles, metadataCache, frame, metadata, gt, batch, opCount, writeFaults, aux>>

SYRetry ==
    /\ pc = "sy_retry"
    /\ \E dl \in DownloadOutcomes, saveOk \in SaveOutcomes :
         LET r == FetchTranscript(vid, dl, saveOk)
         IN  /\ transcripts' = r.store
             /\ srtCache' = r.srt
             /\ trace' = Append(trace, CaptionEvent(r))
             /\ IF FetchFailed(r)
                THEN result' = Failure("notranscript")
                ELSE result' = Success(r.text)
             /\ pc' = "done"
    /\ UNCHANGED <<metaFiles, metadataCache, frame, metadata, gt, batch, opCount, writeFaults, aux>>

\* ---------------------------------- handleWhisperFallbackWithProgressManager
\* Variant: a declined prompt ends like a failed caption fetch.
DeclinedAsNoTranscript == Failure("notranscript")

\* The error of a declined prompt.
Declined == Failure("declined")

\* The confirmation prompt, asked when the fallback was not pre-authorized.
WFAsk ==
    /\ pc = "wf_ask"
    /\ \E answer \in BOOLEAN :
         IF answer
         THEN /\ trace' = Append(trace, "ask_yes")
              /\ pc' = "wf_audio"
              /\ result' = result
         ELSE /\ trace' = Append(trace, "ask_no")
              /\ pc' = "done"
              /\ result' = Declined
    /\ UNCHANGED <<disk, frame, metadata, gt, batch, opCount, writeFaults, aux>>

WFAudio ==
    /\ pc = "wf_audio"
    /\ \E ok \in AudioOutcomes :
         IF ok
         THEN /\ trace' = Append(trace, "audio_ok")
              /\ pc' = "wf_transcribe"
              /\ result' = result
         ELSE /\ trace' = Append(trace, "audio_err")
              /\ pc' = "done"
              /\ result' = Failure("audio")
    /\ UNCHANGED <<disk, frame, metadata, gt, batch, opCount, writeFaults, aux>>

\* Transcription, then the save whose failure is only logged.
WFTranscribe ==
    /\ pc = "wf_transcribe"
    /\ \E out \in TranscribeOutcomes, saveOk \in SaveOutcomes :
         IF out.ok
         THEN /\ transcripts' = SaveTranscript(vid, out.text, saveOk)
              /\ trace' = trace \o <<"transcribe_ok", IF saveOk THEN "save_ok" ELSE "save_err">>
              /\ result' = Success(out.text)
         ELSE /\ transcripts' = transcripts
              /\ trace' = Append(trace, "transcribe_err")
              /\ result' = Failure("transcription")
    /\ pc' = "done"
    /\ UNCHANGED <<metaFiles, metadataCache, srtCache, frame, metadata, gt, batch, opCount, writeFaults, aux>>

\* ------------------------------------------------------ cmd fetchTranscript
FTAfterGet ==
    /\ op = "fetchTranscript"
    /\ pc = "gt_ret"
    /\ IF gt.err = Nil
       THEN result' = Success(gt.text) /\ pc' = "done"
       ELSE IF ~fallbackWhisper
       THEN result' = Failure(gt.err) /\ pc' = "done"
       ELSE result' = result /\ pc' = "ft_audio"
    /\ UNCHANGED <<disk, frame, metadata, gt, trace, batch, opCount, writeFaults, aux>>

FTAudio ==
    /\ pc = "ft_audio"
    /\ \E ok \in AudioOutcomes :
         IF ok
         THEN /\ trace' = Append(trace, "audio_ok")
              /\ pc' = "ft_transcribe"
              /\ result' = result
         ELSE /\ trace' = Append(trace, "audio_err")
              /\ pc' = "done"
              /\ result' = Failure("audio")
    /\ UNCHANGED <<disk, frame, metadata, gt, batch, opCount, writeFaults, aux>>

FTTranscribe ==
    /\ pc = "ft_transcribe"
    /\ \E out \in TranscribeOutcomes, saveOk \in SaveOutcomes :
         IF out.ok
         THEN /\ transcripts' = SaveTranscript(vid, out.text, saveOk)
              /\ trace' = trace \o <<"transcribe_ok", IF saveOk THEN "save_ok" ELSE "save_err">>
              /\ result' = Success(out.text)
         ELSE /\ transcripts' = transcripts
              /\ trace' = Append(trace, "transcribe_err")
              /\ result' = Failure("transcription")
    /\ pc' = "done"
    /\ UNCHANGED <<metaFiles, metadataCache, srtCache, frame, metadata, gt, batch, opCount, writeFaults, aux>>

\* -------------------------------------------- MCPServer.handleWhisperTranscribe
WTAudio ==
    /\ pc = "wt_audio"
    /\ \E ok \in AudioOutcomes :
         IF ok
         THEN /\ trace' = Append(trace, "audio_ok")
              /\ pc' = "wt_transcribe"
              /\ result' = result
         ELSE /\ trace' = Append(trace, "audio_err")
              /\ pc' = "done"
              /\ result' = Failure("audio")
    /\ UNCHANGED <<disk, frame, metadata, gt, batch, opCount, writeFaults, aux>>

\* The tool returns the text; nothing is written to the store.
WTTranscribe ==
    /\ pc = "wt_transcribe"
    /\ \E out \in TranscribeOutcomes :
         IF out.ok
         THEN /\ trace' = Append(trace, "transcribe_ok")
              /\ result' = Success(out.text)
         ELSE /\ trace' = Append(trace, "transcribe_err")
              /\ result' = Failure("transcription")
    /\ pc' = "done"
    /\ UNCHANGED <<disk, frame, metadata, gt, batch, opCount, writeFaults, aux>>

\* ------------------------------------------------ MCPServer.handleGetMetadata
\* The tool asks the platform directly (s.app.youtube.Metadata): neither cache
\* tier is read or written.
MDFetch ==
    /\ pc = "md_fetch"
    /\ \E out \in MetaFetchOutcomes :
         /\ trace' = Append(trace, "meta_fetch")
         /\ IF out.ok
            THEN /\ metadata' = VideoMetadata(vid, out.hasCaptions)
                 /\ result' = Success(<<>>)
            ELSE /\ metadata' = NoMeta
                 /\ result' = Failure("metadata")
    /\ pc' = "done"
    /\ UNCHANGED <<disk, frame, gt, batch, opCount, writeFaults, aux>>

\* ------------------------------------------------------- SummarizePlaylist
Playlists == UNION {[1..n -> IDs] : n \in 0..MaxItems}

SkipEntry(i, title, label) == [index |-> i, title |-> title, label |-> label]

\* Variant: the loop is left after the current item.
NextPcBreak(i) == "pl_end"

\* `continue` / end of the loop body: the next item, or the code after the loop.
NextPc(i) == IF i < Len(playlist) THEN "pl_item" ELSE "pl_end"
NextIdx(i) == IF i < Len(playlist) THEN i + 1 ELSE i

\* Description truncation: longer than 150 becomes 147 characters plus "...".
TruncatedDescLen(n) == IF n > DescriptionCap THEN (DescriptionCap - 3) + 3 ELSE n

\* Variant: the blocks are written last video first.
buildPlaylistTranscriptReversed(title, videos) ==
    [title |-> title,
     blocks |-> [i \in 1..Len(videos) |->
                   LET v == videos[Len(videos) + 1 - i]
                   IN  [n |-> i, of |-> Len(videos), title |-> v.title,
                        minutes |-> v.duration \div 60,
                        seconds |-> v.duration % 60,
                        channel |-> v.channel,
                        hasDescription |-> v.descLen # 0,
                        descLen |-> v.descLen,
                        transcript |-> v.transcript,
                        separatorAfter |-> i < Len(videos)]]]

\* buildPlaylistTranscript: header, then one labelled block per collected video.
buildPlaylistTranscript(title, videos) ==
    [title |-> title,
     blocks |-> [i \in 1..Len(videos) |->
                   [n |-> i, of |-> Len(videos), title |-> videos[i].title,
                    minutes |-> videos[i].duration \div 60,
                    seconds |-> videos[i].duration % 60,
                    channel |-> videos[i].channel,
                    hasDescription |-> videos[i].descLen # 0,
                    descLen |-> videos[i].descLen,
                    transcript |-> videos[i].transcript,
                    separatorAfter |-> i < Len(videos)]]]

\* PlaylistVideoURLs and the empty-playlist check.
PLList ==
    /\ pc = "pl_list"
    /\ \E ok \in ListingOutcomes, urls \in Playlists :
         IF ~ok
         THEN /\ result' = Failure("listing")
              /\ pc' = "done"
              /\ UNCHANGED <<playlist, idx>>
         ELSE IF Len(urls) = 0
         THEN /\ result' = Failure("no_videos")
              /\ pc' = "done"
              /\ UNCHANGED <<playlist, idx>>
         ELSE /\ playlist' = urls
              /\ idx' = 1
              /\ pc' = "pl_item"
              /\ result' = result
    /\ UNCHANGED <<disk, op, vid, fallbackWhisper, hadFile, metadata, gt, trace, transcript, shadow,
                   videoTranscripts, skippedVideos, combined, processed, yielded, report, opCount, writeFaults, aux>>

\* Top of the loop body: the cached-transcript check for item idx.
PLItem ==
    /\ pc = "pl_item"
    /\ LET id == playlist[idx]
       IN  /\ vid' = id
           /\ hadFile' = transcripts[id].exists
           /\ processed' = Append(processed, idx)
           /\ metadata' = NoMeta
           /\ shadow' = <<>>
           /\ gt' = NoGt
           /\ IF FileExists(id)
              THEN \E readOk \in BOOLEAN :
                     IF readOk
                     THEN /\ transcript' = transcripts[id].text
                          /\ trace' = <<"cache_hit">>
                          /\ yielded' = Append(yielded, [pos |-> idx, text |-> transcripts[id].text])
                          /\ pc' = "pl_cached_meta"
                          /\ UNCHANGED <<idx, skippedVideos>>
                     ELSE /\ transcript' = <<>>
                          /\ trace' = <<"read_error">>
                          /\ skippedVideos' = Append(skippedVideos, SkipEntry(idx, NoTitle, "cache read error"))
                          /\ pc' = NextPc(idx)
                          /\ idx' = NextIdx(idx)
                          /\ UNCHANGED yielded
              ELSE /\ transcript' = <<>>
                   /\ trace' = <<>>
                   /\ pc' = "pl_meta"
                   /\ UNCHANGED <<idx, skippedVideos, yielded>>
    /\ UNCHANGED <<disk, op, fallbackWhisper, result, playlist, videoTranscripts, combined, report, opCount, writeFaults, aux>>

\* Cached transcript: metadata from the disk cache, else fetched and saved,
\* else the placeholder.
PLCachedMeta ==
    /\ pc = "pl_cached_meta"
    /\ IF metaFiles[vid].present
       THEN /\ metadata' = metaFiles[vid]
            /\ UNCHANGED <<metaFiles, metadataCache, trace>>
       ELSE \E out \in MetaFetchOutcomes, saveOk \in SaveOutcomes, saveAgainOk \in SaveOutcomes :
              LET r == MetadataLookup(vid, out, saveOk)
              IN  /\ metadataCache' = r.cache
                  /\ trace' = IF r.fetched THEN Append(trace, "meta_fetch") ELSE trace
                  /\ IF r.err
                     THEN /\ metadata' = PlaceholderMetadata(idx)
                          /\ metaFiles' = r.files
                     ELSE /\ metadata' = r.m
                          /\ metaFiles' = IF saveAgainOk THEN [r.files EXCEPT ![vid] = r.m] ELSE r.files
    /\ pc' = "pl_append"
    /\ UNCHANGED <<transcripts, srtCache, frame, gt, result, playlist, idx, transcript, shadow,
                   videoTranscripts, skippedVideos, combined, processed, yielded, report, opCount, writeFaults, aux>>

\* No cached transcript: metadata first, then GetTranscript.
PLMeta ==
    /\ pc = "pl_meta"
    /\ \E out \in MetaFetchOutcomes, saveOk \in SaveOutcomes :
         LET r == MetadataLookup(vid, out, saveOk)
         IN  /\ metaFiles' = r.files
             /\ metadataCache' = r.cache
             /\ trace' = IF r.fetched THEN Append(trace, "meta_fetch") ELSE trace
             /\ IF r.err
                THEN /\ skippedVideos' = Append(skippedVideos, SkipEntry(idx, NoTitle, "metadata error"))
                     /\ pc' = NextPc(idx)
                     /\ idx' = NextIdx(idx)
                     /\ metadata' = metadata
                ELSE /\ metadata' = r.m
                     /\ pc' = "gt_cache"
                     /\ UNCHANGED <<idx, skippedVideos>>
    /\ UNCHANGED <<transcripts, srtCache, frame, gt, result, playlist, transcript, shadow,
                   videoTranscripts, combined, processed, yielded, report, opCount, writeFaults, aux>>

\* GetTranscript returned: its text goes to the else block's own transcript
\* variable (`transcript, err :=`), not to the loop body's.
PLAfterGet ==
    /\ op = "SummarizePlaylist"
    /\ pc = "gt_ret"
    /\ IF gt.err = Nil
       THEN /\ shadow' = gt.text
            /\ yielded' = Append(yielded, [pos |-> idx, text |-> gt.text])
            /\ pc' = "pl_append"
       ELSE /\ pc' = (IF NeedsConfirmation(fallbackWhisper) THEN "pl_ask" ELSE "pl_audio")
            /\ UNCHANGED <<shadow, yielded>>
    /\ UNCHANGED <<disk, frame, metadata, gt, result, trace, playlist, idx, transcript,
                   videoTranscripts, skippedVideos, combined, processed, report, opCount, writeFaults, aux>>

\* Per-item confirmation prompt.
PLAsk ==
    /\ pc = "pl_ask"
    /\ \E answer \in BOOLEAN :
         IF answer
         THEN /\ trace' = Append(trace, "ask_yes")
              /\ pc' = "pl_audio"
              /\ UNCHANGED <<idx, skippedVideos>>
         ELSE /\ trace' = Append(trace, "ask_no")
              /\ skippedVideos' = Append(skippedVideos, SkipEntry(idx, metadata.title, NoLabel))
              /\ pc' = NextPc(idx)
              /\ idx' = NextIdx(idx)
    /\ UNCHANGED <<disk, frame, metadata, gt, result, playlist, transcript, shadow,
                   videoTranscripts, combined, processed, yielded, report, opCount, writeFaults, aux>>

PLAudio ==
    /\ pc = "pl_audio"
    /\ \E ok \in AudioOutcomes :
         IF ok
         THEN /\ trace' = Append(trace, "audio_ok")
              /\ pc' = "pl_transcribe"
              /\ UNCHANGED <<idx, skippedVideos>>
         ELSE /\ trace' = Append(trace, "audio_err")
              /\ skippedVideos' = Append(skippedVideos, SkipEntry(idx, metadata.title, "audio error"))
              /\ pc' = NextPc(idx)
              /\ idx' = NextIdx(idx)
    /\ UNCHANGED <<disk, frame, metadata, gt, result, playlist, transcript, shadow,
                   videoTranscripts, combined, processed, yielded, report, opCount, writeFaults, aux>>

\* Transcription and save; the text is assigned to the else block's variable.
PLTranscribe ==
    /\ pc = "pl_transcribe"
    /\ \E out \in TranscribeOutcomes, saveOk \in SaveOutcomes :
         IF out.ok
         THEN /\ shadow' = out.text
              /\ transcripts' = SaveTranscript(vid, out.text, saveOk)
              /\ trace' = trace \o <<"transcribe_ok", IF saveOk THEN "save_ok" ELSE "save_err">>
              /\ yielded' = Append(yielded, [pos |-> idx, text |-> out.text])
              /\ pc' = "pl_append"
              /\ UNCHANGED <<idx, skippedVideos>>
         ELSE /\ trace' = Append(trace, "transcribe_err")
              /\ skippedVideos' = Append(skippedVideos, SkipEntry(idx, metadata.title, "transcription error"))
              /\ pc' = NextPc(idx)
              /\ idx' = NextIdx(idx)
              /\ UNCHANGED <<shadow, transcripts, yielded>>
    /\ UNCHANGED <<metaFiles, metadataCache, srtCache, frame, metadata, gt, result, playlist, transcript,
                   videoTranscripts, combined, processed, report, opCount, writeFaults, aux>>

\* End of the loop body: truncate the description and collect the video.
PLAppend ==
    /\ pc = "pl_append"
    /\ videoTranscripts' = Append(videoTranscripts,
           [url |-> vid, title |-> metadata.title, channel |-> metadata.channel,
            duration |-> metadata.duration, descLen |-> TruncatedDescLen(metadata.descLen),
            transcript |-> transcript])
    /\ pc' = NextPc(idx)
    /\ idx' = NextIdx(idx)
    /\ UNCHANGED <<disk, frame, metadata, gt, result, trace, playlist, transcript, shadow,
                   skippedVideos, combined, processed, yielded, report, opCount, writeFaults, aux>>

\* Variant: any skipped item fails the batch.
NoTranscriptsObtainedOrSkipped(videos) == Len(videos) < Len(playlist)

\* `if len(videoTranscripts) == 0`
NoTranscriptsObtained(videos) == Len(videos) = 0

\* After the loop: hard failure on zero transcripts, else the report and the
\* combined transcript.
PLEnd ==
    /\ pc = "pl_end"
    /\ IF NoTranscriptsObtained(videoTranscripts)
       THEN /\ result' = Failure("no_transcripts")
            /\ UNCHANGED <<report, combined>>
       ELSE /\ report' = [printed |-> TRUE, succeeded |-> Len(videoTranscripts),
                          total |-> Len(playlist), skipped |-> skippedVideos]
            /\ combined' = buildPlaylistTranscript(PlaylistTitle, videoTranscripts)
            /\ result' = Success(<<>>)
    /\ pc' = "done"
    /\ UNCHANGED <<disk, frame, metadata, gt, trace, playlist, idx, transcript, shadow,
                   videoTranscripts, skippedVideos, processed, yielded, opCount, writeFaults, aux>>

\* ------------------------------------------------ AI.TranscribeWithProgress
\* Texts CreateTranscription can return for one chunk.
ChunkTexts == {<<>>, <<1>>, <<2>>}
ChunkOutcomes == {[ok |-> FALSE, text |-> <<>>]} \cup {[ok |-> TRUE, text |-> t] : t \in ChunkTexts}

Range(seq) == {seq[i] : i \in 1..Len(seq)}

\* Variant: one chunk more than the whole quotient, also for exact multiples.
ChunkCountQuotientPlusOne(size, limit) == (size \div limit) + 1

\* int(math.Ceil(float64(fileSize) / float64(ai.whisperLimit))); the float
\* quotient is exact for sizes below 2^53.
ChunkCount(size, limit) == (size \div limit) + (IF size % limit = 0 THEN 0 ELSE 1)

\* Variant: a newline is written after every chunk text.
NeedsSeparatorAlways(i, n) == TRUE

\* `if i < numChunks-1` with the 0-based loop index; i is 1-based here.
NeedsSeparator(i, n) == i < n

\* Variant: the loop goes on after a failed chunk.
ChunkFailurePcContinue == "t_open"

\* `return "", fmt.Errorf(...)` inside the loop: the deferred cleanup is next.
ChunkFailurePc == "t_cleanup"

\* Variant: the audio file is left behind.
CleansOriginalNever(paths) == FALSE

\* `if len(chunks) > 1 { cleanupFiles(audioFile) }`
CleansOriginal(paths) == Len(paths) > 1

\* cleanupFiles: os.Remove on each path; failing are the paths whose removal
\* fails, which is only logged.
cleanupFiles(paths, failing) ==
    [files |-> files \ (paths \ failing), tried |-> removeTried \cup paths]

\* TranscribeWithProgress is called on an audio file.
TStart ==
    /\ tpc = "idle"
    /\ \E size \in 1..MaxSize, limit \in 1..MaxLimit :
         /\ fileSize' = size
         /\ whisperLimit' = limit
    /\ tpc' = "t_stat"
    /\ UNCHANGED <<numChunks, chunks, files, created, ci, sb, inFlight, submitted, texts, failedAt,
                   removeTried, tresult>>
    /\ UNCHANGED <<acquisition, locks, cancelled, side>>

\* os.Stat and the chunk count; a single chunk is the audio file itself.
TStat ==
    /\ tpc = "t_stat"
    /\ \E ok \in BOOLEAN :
         IF ~ok
         THEN /\ tresult' = Failure("stat")
              /\ tpc' = "t_returned"
              /\ UNCHANGED <<numChunks, chunks, ci>>
         ELSE LET n == ChunkCount(fileSize, whisperLimit)
              IN  /\ numChunks' = n
                  /\ tresult' = tresult
                  /\ IF n > 1
                     THEN /\ tpc' = "t_duration"
                          /\ UNCHANGED <<chunks, ci>>
                     ELSE /\ chunks' = <<AudioFile>>
                          /\ ci' = 1
                          /\ tpc' = "t_open"
    /\ UNCHANGED <<fileSize, whisperLimit, files, created, sb, inFlight, submitted, texts, failedAt,
                   removeTried>>
    /\ UNCHANGED <<acquisition, locks, cancelled, side>>

\* Audio.Split: the temp directory and the duration probe.
TDuration ==
    /\ tpc = "t_duration"
    /\ \E ok \in BOOLEAN :
         IF ok
         THEN tpc' = "t_chunk" /\ tresult' = tresult
         ELSE tpc' = "t_returned" /\ tresult' = Failure("split")
    /\ UNCHANGED <<fileSize, whisperLimit, numChunks, chunks, files, created, ci, sb, inFlight,
                   submitted, texts, failedAt, removeTried>>
    /\ UNCHANGED <<acquisition, locks, cancelled, side>>

\* Audio.Split: one Audio.Chunk run; a failed run removes the chunks made so
\* far and Split returns no chunks.
TChunk ==
    /\ tpc = "t_chunk"
    /\ LET i == Len(chunks) + 1
       IN  \E ok \in BOOLEAN :
             IF ok
             THEN /\ files' = files \cup {i}
                  /\ created' = created \cup {i}
                  /\ chunks' = Append(chunks, i)
                  /\ IF i = numChunks
                     THEN tpc' = "t_open" /\ ci' = 1
                     ELSE tpc' = "t_chunk" /\ ci' = ci
                  /\ UNCHANGED <<removeTried, tresult>>
             ELSE \E failing \in SUBSET Range(chunks) :
                    LET r == cleanupFiles(Range(chunks), failing)
                    IN  /\ files' = r.files
                        /\ removeTried' = r.tried
                        /\ chunks' = <<>>
                        /\ tresult' = Failure("split")
                        /\ tpc' = "t_returned"
                        /\ UNCHANGED <<created, ci>>
    /\ UNCHANGED <<fileSize, whisperLimit, numChunks, sb, inFlight, submitted, texts, failedAt>>
    /\ UNCHANGED <<acquisition, locks, cancelled, side>>

\* Loop body, first half: os.Open of chunk ci, then the CreateTranscription
\* call is issued.
TSubmit ==
    /\ tpc = "t_open"
    /\ \E openOk \in BOOLEAN :
         IF openOk
         THEN /\ inFlight' = inFlight \cup {chunks[ci]}
              /\ submitted' = Append(submitted, chunks[ci])
              /\ tpc' = "t_call"
              /\ UNCHANGED <<failedAt, tresult>>
         ELSE /\ failedAt' = ci
              /\ tresult' = Failure("open")
              /\ tpc' = ChunkFailurePc
              /\ UNCHANGED <<inFlight, submitted>>
    /\ UNCHANGED <<fileSize, whisperLimit, numChunks, chunks, files, created, ci, sb, texts,
                   removeTried>>
    /\ UNCHANGED <<acquisition, locks, cancelled, side>>

\* Loop body, second half: the call returns; its text and the separator go
\* to the builder.
TReturn ==
    /\ tpc = "t_call"
    /\ inFlight' = inFlight \ {chunks[ci]}
    /\ \E out \in ChunkOutcomes :
         IF out.ok
         THEN LET written == sb \o out.text
                                \o (IF NeedsSeparator(ci, Len(chunks)) THEN <<NL>> ELSE <<>>)
              IN  /\ sb' = written
                  /\ texts' = Append(texts, out.text)
                  /\ failedAt' = failedAt
                  /\ IF ci < Len(chunks)
                     THEN ci' = ci + 1 /\ tpc' = "t_open" /\ tresult' = tresult
                     ELSE ci' = ci /\ tpc' = "t_cleanup" /\ tresult' = Success(written)
         ELSE /\ failedAt' = ci
              /\ tresult' = Failure("chunk")
              /\ tpc' = ChunkFailurePc
              /\ UNCHANGED <<sb, texts, ci>>
    /\ UNCHANGED <<fileSize, whisperLimit, numChunks, chunks, files, created, submitted, removeTried>>
    /\ UNCHANGED <<acquisition, locks, cancelled, side>>

\* The deferred function: the chunks, then the audio file when it was split.
TCleanup ==
    /\ tpc = "t_cleanup"
    /\ LET paths == Range(chunks) \cup (IF CleansOriginal(chunks) THEN {AudioFile} ELSE {})
       IN  \E failing \in SUBSET paths :
             LET r == cleanupFiles(paths, failing)
             IN  /\ files' = r.files
                 /\ removeTried' = r.tried
    /\ tpc' = "t_returned"
    /\ UNCHANGED <<fileSize, whisperLimit, numChunks, chunks, created, ci, sb, inFlight, submitted,
                   texts, failedAt, tresult>>
    /\ UNCHANGED <<acquisition, locks, cancelled, side>>

\* The caller has the result; the next audio file can come.
TFinish ==
    /\ tpc = "t_returned"
    /\ tpc' = "idle"
    /\ fileSize' = 1
    /\ whisperLimit' = 1
    /\ numChunks' = 0
    /\ chunks' = <<>>
    /\ files' = {AudioFile}
    /\ created' = {}
    /\ ci' = 0
    /\ sb' = <<>>
    /\ inFlight' = {}
    /\ submitted' = <<>>
    /\ texts' = <<>>
    /\ failedAt' = 0
    /\ removeTried' = {}
    /\ tresult' = NoResult
    /\ UNCHANGED <<acquisition, locks, cancelled, side>>

\* ---------------------------------- getCachedMetadata / setCachedMetadata
\* The acquisition variables the map accessors leave alone.
acquisitionButCache == <<transcripts, metaFiles, srtCache, op, pc, vid, fallbackWhisper, metadata, gt,
                         result, trace, hadFile, batch, opCount, writeFaults>>

\* A goroutine is blocked in metadataMu.Lock.
WriterWaiting == \E g \in Goroutines : gpc[g] = "set_lock"

\* Variant: Lock only waits for another writer.
CanLockDespiteReaders == ~writerHeld

\* sync.RWMutex.Lock returns once no goroutine holds the lock in either mode.
CanLock == ~writerHeld /\ readerCount = 0

\* sync.RWMutex.RLock returns once no writer holds the lock or waits for it.
CanRLock == ~writerHeld /\ ~WriterWaiting

\* getCachedMetadata(id) is called.
GetCall ==
    \E g \in Goroutines, id \in IDs :
        /\ gpc[g] = "idle"
        /\ gpc' = [gpc EXCEPT ![g] = "get_rlock"]
        /\ garg' = [garg EXCEPT ![g] = id]
        /\ UNCHANGED <<readerCount, writerHeld, acquisition, whisper, cancelled, side>>

\* app.metadataMu.RLock()
GetRLock ==
    \E g \in Goroutines :
        /\ gpc[g] = "get_rlock"
        /\ CanRLock
        /\ readerCount' = readerCount + 1
        /\ gpc' = [gpc EXCEPT ![g] = "get_read"]
        /\ UNCHANGED <<garg, writerHeld, acquisition, whisper, cancelled, side>>

\* metadata, ok := app.metadataCache[id]
GetRead ==
    \E g \in Goroutines :
        /\ gpc[g] = "get_read"
        /\ gpc' = [gpc EXCEPT ![g] = "get_runlock"]
        /\ UNCHANGED <<garg, readerCount, writerHeld, acquisition, whisper, cancelled, side>>

\* The deferred app.metadataMu.RUnlock(), and the return.
GetRUnlock ==
    \E g \in Goroutines :
        /\ gpc[g] = "get_runlock"
        /\ readerCount' = readerCount - 1
        /\ gpc' = [gpc EXCEPT ![g] = "idle"]
        /\ garg' = [garg EXCEPT ![g] = "v1"]
        /\ UNCHANGED <<writerHeld, acquisition, whisper, cancelled, side>>

\* setCachedMetadata(id, metadata) is called.
SetCall ==
    \E g \in Goroutines, id \in IDs :
        /\ gpc[g] = "idle"
        /\ gpc' = [gpc EXCEPT ![g] = "set_lock"]
        /\ garg' = [garg EXCEPT ![g] = id]
        /\ UNCHANGED <<readerCount, writerHeld, acquisition, whisper, cancelled, side>>

\* app.metadataMu.Lock()
SetLock ==
    \E g \in Goroutines :
        /\ gpc[g] = "set_lock"
        /\ CanLock
        /\ writerHeld' = TRUE
        /\ gpc' = [gpc EXCEPT ![g] = "set_write"]
        /\ UNCHANGED <<garg, readerCount, acquisition, whisper, cancelled, side>>

\* app.metadataCache[id] = metadata
SetWrite ==
    \E g \in Goroutines, hc \in BOOLEAN :
        /\ gpc[g] = "set_write"
        /\ metadataCache' = [metadataCache EXCEPT ![garg[g]] = VideoMetadata(garg[g], hc)]
        /\ gpc' = [gpc EXCEPT ![g] = "set_unlock"]
        /\ UNCHANGED <<garg, readerCount, writerHeld, acquisitionButCache, whisper, cancelled, side>>

\* The deferred app.metadataMu.Unlock(), and the return.
SetUnlock ==
    \E g \in Goroutines :
        /\ gpc[g] = "set_unlock"
        /\ writerHeld' = FALSE
        /\ gpc' = [gpc EXCEPT ![g] = "idle"]
        /\ garg' = [garg EXCEPT ![g] = "v1"]
        /\ UNCHANGED <<readerCount, acquisition, whisper, cancelled, side>>

\* ------------------------------------------------------------ cancellation
acquisitionButPc == <<transcripts, metaFiles, metadataCache, srtCache, op, vid, fallbackWhisper, metadata,
                      gt, result, trace, hadFile, batch, opCount, writeFaults>>

\* The signal goroutine of Execute calls cancel() while an entry point runs.
Cancel ==
    /\ op # "idle"
    /\ pc \notin {"done", "exited"}
    /\ ~cancelled
    /\ cancelled' = TRUE
    /\ UNCHANGED <<acquisition, whisper, locks, side>>

\* The signal goroutine has cleaned the temp directory, or waited three
\* seconds for that, and calls os.Exit(0); the main goroutine ran meanwhile.
Exit ==
    /\ cancelled
    /\ pc # "exited"
    /\ pc' = "exited"
    /\ UNCHANGED <<acquisitionButPc, aux>>

\* ---------------------------------------------------------- signal handler
\* The goroutine Execute starts before running the command: it waits for an
\* interrupt or termination signal, cancels the run context, starts
\* CleanupTempDir in a goroutine of its own, waits for that goroutine or for
\* the grace timeout, and exits the process.
TempNames == 0..MaxSize

SignalReceived ==
    /\ sig = "waiting"
    /\ sig' = "received"
    /\ UNCHANGED <<cleanupPc, entries, leftover, timerFired, normalizer, kind, later, acquisition, whisper,
                   locks, cancelled>>

SigCancel ==
    /\ sig = "received"
    /\ cancelled' = TRUE
    /\ sig' = "cancelled"
    /\ UNCHANGED <<cleanupPc, entries, leftover, timerFired, normalizer, kind, later, acquisition, whisper,
                   locks>>

\* context.WithTimeout arms the grace timer, then the cleanup goroutine starts.
SigStartCleanup ==
    /\ sig = "cancelled"
    /\ sig' = "select"
    /\ cleanupPc' = "c_stat"
    /\ UNCHANGED <<entries, leftover, timerFired, normalizer, kind, later, acquisition, whisper, locks,
                   cancelled>>

\* CleanupTempDir: a missing directory is nothing to clean.
CStat ==
    /\ sig # "exited"
    /\ cleanupPc = "c_stat"
    /\ \E exists \in BOOLEAN :
        cleanupPc' = IF exists THEN "c_readdir" ELSE "c_close"
    /\ UNCHANGED <<sig, entries, leftover, timerFired, normalizer, kind, later, acquisition, whisper, locks,
                   cancelled>>

\* CleanupTempDir: a failed listing is returned as an error, which the caller
\* only reports.
CReadDir ==
    /\ sig # "exited"
    /\ cleanupPc = "c_readdir"
    /\ \E ok \in BOOLEAN, listed \in SUBSET TempNames :
        IF ok
        THEN /\ entries' = listed
             /\ cleanupPc' = "c_remove"
        ELSE /\ entries' = entries
             /\ cleanupPc' = "c_close"
    /\ UNCHANGED <<sig, leftover, timerFired, normalizer, kind, later, acquisition, whisper, locks,
                   cancelled>>

\* CleanupTempDir: remove the next entry; a failure is only reported.
CRemove ==
    /\ sig # "exited"
    /\ cleanupPc = "c_remove"
    /\ entries # {}
    /\ LET e == CHOOSE x \in entries : \A y \in entries : x <= y
       IN  \E ok \in BOOLEAN :
            /\ entries' = entries \ {e}
            /\ leftover' = IF ok THEN leftover ELSE leftover \cup {e}
    /\ UNCHANGED <<sig, cleanupPc, timerFired, normalizer, kind, later, acquisition, whisper, locks,
                   cancelled>>

\* CleanupTempDir: try to remove the directory itself, whatever the outcome.
CRemoveDir ==
    /\ sig # "exited"
    /\ cleanupPc = "c_remove"
    /\ entries = {}
    /\ cleanupPc' = "c_close"
    /\ UNCHANGED <<sig, entries, leftover, timerFired, normalizer, kind, later, acquisition, whisper, locks,
                   cancelled>>

\* close(cleanupDone)
CClose ==
    /\ sig # "exited"
    /\ cleanupPc = "c_close"
    /\ cleanupPc' = "done"
    /\ UNCHANGED <<sig, entries, leftover, timerFired, normalizer, kind, later, acquisition, whisper, locks,
                   cancelled>>

\* cleanupCtx expires three seconds after it was made.
GraceTimeout ==
    /\ sig = "select"
    /\ ~timerFired
    /\ timerFired' = TRUE
    /\ UNCHANGED <<sig, cleanupPc, entries, leftover, normalizer, kind, later, acquisition, whisper, locks,
                   cancelled>>

\* The select of the handler: either channel being ready lets it through.
CanExitCleanupOnly == cleanupPc = "done"

CanExit == cleanupPc = "done" \/ timerFired

\* os.Exit(0) ends every goroutine.
SigExit ==
    /\ sig = "select"
    /\ CanExit
    /\ sig' = "exited"
    /\ UNCHANGED <<cleanupPc, entries, leftover, timerFired, normalizer, kind, later, acquisition, whisper,
                   locks, cancelled>>

\* ------------------------------------------------- normalizer on its own
\* The lines of subtitle text the inputs are made of: single words, a word
\* pair, and the texts "hello world" and "hello world there".
HelloWorld == <<1, SP, 2>>
HelloWorldThere == <<1, SP, 2, SP, 3>>
SubtitleLines == {<<1>>, <<2>>, <<1, 2>>, HelloWorld, HelloWorldThere}
SubtitleBlocks == {<<NumLine, TimeLine, l>> : l \in SubtitleLines}
SrtInputs == UNION {[1..n -> SubtitleBlocks] : n \in 0..MaxBlocks}

\* processSrtTranscript, up to the save: parse, deduplicate, join and trim.
NParse ==
    /\ npc = "idle"
    /\ parsed' = parseSRT(srtIn)
    /\ npc' = "parsed"
    /\ UNCHANGED <<srtIn, kept, again, normalized, signals, kind, later, acquisition, whisper, locks,
                   cancelled>>

NDedup ==
    /\ npc = "parsed"
    /\ kept' = removeDuplicates(parsed)
    /\ npc' = "deduped"
    /\ UNCHANGED <<srtIn, parsed, again, normalized, signals, kind, later, acquisition, whisper, locks,
                   cancelled>>

NJoin ==
    /\ npc = "deduped"
    /\ normalized' = TrimSpace(JoinLines(kept))
    /\ npc' = "joined"
    /\ UNCHANGED <<srtIn, parsed, kept, again, signals, kind, later, acquisition, whisper, locks,
                   cancelled>>

\* removeDuplicates applied to the lines it returned.
NAgain ==
    /\ npc = "joined"
    /\ again' = removeDuplicates(kept)
    /\ npc' = "again"
    /\ UNCHANGED <<srtIn, parsed, kept, normalized, signals, kind, later, acquisition, whisper, locks,
                   cancelled>>

\* ------------------------------------------------- classifier on its own
\* Bare tokens: a prefix, a run of one character, a suffix, with or without
\* blanks around.  "UU", "RD", "help", "test"
UU == <<85, 85>>
RD == <<82, 68>>
HelpWord == <<104, 101, 108, 112>>
TestWord == <<116, 101, 115, 116>>
TokenPrefixes == {<<>>, PL, UC, UU, RD, OLAK, RDCLAK, AtSign}
TokenFills == {97, 65, 55, Hyphen, Dot, Bang}
TokenSuffixes == {<<>>, HelpWord, TestWord}
BareTokens ==
    {pad \o p \o Rep(c, n) \o s \o pad :
        pad \in {<<>>, <<SP>>}, p \in TokenPrefixes, c \in TokenFills,
        n \in 0..MaxFill, s \in TokenSuffixes}

\* URLs: "/watch", "/playlist", "/channel/", "/@", "/c/", "/user/", "/feed"
\* followed by a well-formed or a too-short name.
VideoA == Rep(97, 11)
ChannelA == UC \o Rep(97, 22)
PlaylistA == PL \o Rep(97, 16)
UploadsA == UU \o Rep(97, 16)
Hosts == {"www.youtube.com", "youtube.com", "youtu.be", "YouTube.com", "vimeo.com"}
Paths ==
    {<<>>, <<47, 119, 97, 116, 99, 104>>, <<47, 112, 108, 97, 121, 108, 105, 115, 116>>, <<47, 102, 101, 101, 100>>,
     <<Slash>> \o VideoA,
     <<47, 99, 104, 97, 110, 110, 101, 108, 47>> \o ChannelA, <<47, 99, 104, 97, 110, 110, 101, 108, 47>> \o VideoA,
     <<47, 64, 97, 98, 99>>, <<47, 64, 97, 98>>,
     <<47, 99, 47>> \o UploadsA, <<47, 99, 47, 97, 98>>,
     <<47, 117, 115, 101, 114, 47, 97, 98, 99>>, <<47, 117, 115, 101, 114, 47, 97>>}
VParams == {<<>>, VideoA, Rep(97, 10)}
ListParams == {<<>>, PlaylistA, UploadsA, PL \o Rep(97, 5)}
URLInputs ==
    {URLInput(TRUE, "", <<>>, <<>>, <<>>)} \cup
    {URLInput(FALSE, h, p, v, l) : h \in Hosts, p \in Paths, v \in VParams, l \in ListParams}
RawInputs == {BareInput(t) : t \in BareTokens} \cup URLInputs

\* The text of a raw input as far as its readers look: a URL starts with
\* its scheme, "https://".
RawText(input) ==
    IF input.isURL THEN <<104, 116, 116, 112, 115, 58, 47, 47>> \o input.path ELSE input.token

\* The normalized URL of a reference, read again as a URL: the format string
\* decides the path and the query value the text lands in.
URLOf(p) ==
    LET template == p.url[1]
        id       == p.url[2]
        host     == "www.youtube.com"
    IN  IF template = WatchTemplate THEN URLInput(FALSE, host, <<47, 119, 97, 116, 99, 104>>, id, <<>>)
        ELSE IF template = PlaylistTemplate
        THEN URLInput(FALSE, host, <<47, 112, 108, 97, 121, 108, 105, 115, 116>>, <<>>, id)
        ELSE IF template = ChannelTemplate
        THEN URLInput(FALSE, host, <<47, 99, 104, 97, 110, 110, 101, 108, 47>> \o id, <<>>, <<>>)
        ELSE IF template = CustomTemplate
        THEN URLInput(FALSE, host, <<47, 99, 47>> \o id, <<>>, <<>>)
        ELSE IF template = UserTemplate
        THEN URLInput(FALSE, host, <<47, 117, 115, 101, 114, 47>> \o id, <<>>, <<>>)
        ELSE URLInput(FALSE, host, <<Slash>> \o id, <<>>, <<>>)

\* ParsedArg.IsValid on a whole reference.
ParsedIsValid(p) == p.err = Nil /\ IsValid(p.contentType)

\* ParseArg, the ID it returns: the input itself when it does not classify.
ParseArgID(input) ==
    LET p == ParseArgNew(input)
    IN  IF p.err # Nil THEN RawText(input) ELSE p.id

\* rootCmd.RunE: classify the argument.
Classify ==
    /\ ppc = "idle"
    /\ parsedArg' = ParseArgNew(rawArg)
    /\ ppc' = "parsed"
    /\ UNCHANGED <<rawArg, decoding, lookups, splitting, signals, normalizer, kind,
                   acquisition, whisper, locks, cancelled>>

\* rootCmd.RunE after the classification, and the head of SummarizeYouTube it
\* calls with the normalized URL: a reference with an error or of no valid
\* kind is refused; a URL whose ID is a playlist ID goes to SummarizePlaylist,
\* every other one to the single-item pipeline.
Dispatch ==
    /\ ppc = "parsed"
    /\ ppc' = IF parsedArg.err # Nil \/ ~ParsedIsValid(parsedArg) THEN "rejected"
              ELSE IF IsValidPlaylistID(ParseArgID(URLOf(parsedArg))) THEN "batch"
              ELSE "single"
    /\ UNCHANGED <<rawArg, parsedArg, decoding, lookups, splitting, signals, normalizer,
                   kind, acquisition, whisper, locks, cancelled>>

\* ----------------------------------------------------- YouTube.Metadata
\* The decoding of a yt-dlp response, after the command has run.
UnmarshalRaw ==
    /\ epc = "idle"
    /\ epc' = "raw"
    /\ UNCHANGED <<rawData, extracted, classifier, lookups, splitting, signals, normalizer,
                   kind, acquisition, whisper, locks, cancelled>>

\* The decoding into VideoMetadata: has_captions must be a boolean when it is
\* there, and its value becomes the struct's field.
UnmarshalStruct ==
    /\ epc = "raw"
    /\ IF rawData.has_captions = "other"
       THEN epc' = "error" /\ UNCHANGED extracted
       ELSE epc' = "struct" /\ extracted' = (rawData.has_captions = "true")
    /\ UNCHANGED <<rawData, classifier, lookups, splitting, signals, normalizer,
                   kind, acquisition, whisper, locks, cancelled>>

ExtractSubtitles ==
    /\ epc = "struct"
    /\ extracted' = extractSubtitleInfo(rawData)
    /\ epc' = "done"
    /\ UNCHANGED <<rawData, classifier, lookups, splitting, signals, normalizer,
                   kind, acquisition, whisper, locks, cancelled>>

\* ------------------------------------------ concurrent MetadataWithStatus
\* MetadataWithStatus called by several goroutines of one App, one step per
\* access to a cache tier or to the download tool.
LookupStart(g) ==
    /\ lpc[g] = "idle"
    /\ \E id \in IDs : lres' = [lres EXCEPT ![g] = [NoLookup EXCEPT !.id = id]]
    /\ lpc' = [lpc EXCEPT ![g] = "memory"]
    /\ UNCHANGED <<metaFiles, metadataCache, fetchLog>>
    /\ UNCHANGED <<transcripts, srtCache, op, pc, vid, fallbackWhisper, metadata, gt, result,
                   trace, hadFile, batch, opCount, writeFaults, classifier, decoding,
                   splitting, signals, normalizer, kind, whisper, locks, cancelled>>

\* getCachedMetadata under the read lock.
LookupMemory(g) ==
    /\ lpc[g] = "memory"
    /\ IF metadataCache[lres[g].id].present
       THEN /\ lres' = [lres EXCEPT ![g].m = metadataCache[lres[g].id]]
            /\ lpc' = [lpc EXCEPT ![g] = "done"]
       ELSE /\ lpc' = [lpc EXCEPT ![g] = "disk"]
            /\ UNCHANGED lres
    /\ UNCHANGED <<metaFiles, metadataCache, fetchLog>>
    /\ UNCHANGED <<transcripts, srtCache, op, pc, vid, fallbackWhisper, metadata, gt, result,
                   trace, hadFile, batch, opCount, writeFaults, classifier, decoding,
                   splitting, signals, normalizer, kind, whisper, locks, cancelled>>

\* LoadCachedMetadata, and setCachedMetadata when the file is there.
LookupDisk(g) ==
    /\ lpc[g] = "disk"
    /\ IF metaFiles[lres[g].id].present
       THEN /\ lres' = [lres EXCEPT ![g].m = metaFiles[lres[g].id]]
            /\ metadataCache' = [metadataCache EXCEPT ![lres[g].id] = metaFiles[lres[g].id]]
            /\ lpc' = [lpc EXCEPT ![g] = "done"]
       ELSE /\ lpc' = [lpc EXCEPT ![g] = "fetch"]
            /\ UNCHANGED <<lres, metadataCache>>
    /\ UNCHANGED <<metaFiles, fetchLog>>
    /\ UNCHANGED <<transcripts, srtCache, op, pc, vid, fallbackWhisper, metadata, gt, result,
                   trace, hadFile, batch, opCount, writeFaults, classifier, decoding,
                   splitting, signals, normalizer, kind, whisper, locks, cancelled>>

\* youtube.Metadata: one run of the download tool.
LookupFetch(g) ==
    /\ lpc[g] = "fetch"
    /\ \E out \in MetaFetchOutcomes :
         /\ fetchLog' = Append(fetchLog, [by |-> g, id |-> lres[g].id, ok |-> out.ok])
         /\ IF out.ok
            THEN /\ lres' = [lres EXCEPT ![g].m = VideoMetadata(lres[g].id, out.hasCaptions)]
                 /\ lpc' = [lpc EXCEPT ![g] = "save"]
            ELSE /\ lres' = [lres EXCEPT ![g].err = TRUE]
                 /\ lpc' = [lpc EXCEPT ![g] = "done"]
    /\ UNCHANGED <<metaFiles, metadataCache>>
    /\ UNCHANGED <<transcripts, srtCache, op, pc, vid, fallbackWhisper, metadata, gt, result,
                   trace, hadFile, batch, opCount, writeFaults, classifier, decoding,
                   splitting, signals, normalizer, kind, whisper, locks, cancelled>>

\* SaveMetadata: a failed write is only logged.
LookupSave(g) ==
    /\ lpc[g] = "save"
    /\ \E saveOk \in BOOLEAN :
         metaFiles' = IF saveOk THEN [metaFiles EXCEPT ![lres[g].id] = lres[g].m] ELSE metaFiles
    /\ lpc' = [lpc EXCEPT ![g] = "set"]
    /\ UNCHANGED <<metadataCache, lres, fetchLog>>
    /\ UNCHANGED <<transcripts, srtCache, op, pc, vid, fallbackWhisper, metadata, gt, result,
                   trace, hadFile, batch, opCount, writeFaults, classifier, decoding,
                   splitting, signals, normalizer, kind, whisper, locks, cancelled>>

\* setCachedMetadata under the write lock, then the return.
LookupSet(g) ==
    /\ lpc[g] = "set"
    /\ metadataCache' = [metadataCache EXCEPT ![lres[g].id] = lres[g].m]
    /\ lpc' = [lpc EXCEPT ![g] = "done"]
    /\ UNCHANGED <<metaFiles, lres, fetchLog>>
    /\ UNCHANGED <<transcripts, srtCache, op, pc, vid, fallbackWhisper, metadata, gt, result,
                   trace, hadFile, batch, opCount, writeFaults, classifier, decoding,
                   splitting, signals, normalizer, kind, whisper, locks, cancelled>>

\* ------------------------------------------------------------ Audio.Split
\* Durations are in units of 1/DurationUnit second, as ffprobe reports
\* fractions of a second; starts and lengths of chunks are whole seconds.
DurationUnit == 4

\* Variant: the quotient is rounded down.
CeilSecondsFloor(duration, n) == duration \div (DurationUnit * n)

\* int(math.Ceil(duration / float64(numChunks))), in whole seconds.
CeilSeconds(duration, n) == (duration + DurationUnit * n - 1) \div (DurationUnit * n)

\* EnsureDirs and Audio.Duration: either can fail, and then Split returns
\* the error; otherwise the chunk duration is computed.
SplitDuration ==
    /\ spc = "idle"
    /\ splitN >= 2
    /\ \E ok \in BOOLEAN :
         IF ok
         THEN /\ chunkDuration' = CeilSeconds(audioDuration, splitN)
              /\ spc' = "chunk"
         ELSE /\ spc' = "failed"
              /\ UNCHANGED chunkDuration
    /\ UNCHANGED segments
    /\ UNCHANGED <<audioDuration, splitN, classifier, decoding, lookups, signals, normalizer,
                   kind, acquisition, whisper, locks, cancelled>>

\* One pass of the loop: Audio.Chunk for index i = len(chunks); a failure
\* removes the chunks made so far and returns the error.
SplitChunk ==
    /\ spc = "chunk"
    /\ LET i == Len(segments)
       IN  \E ok \in BOOLEAN :
             IF ok
             THEN /\ segments' = Append(segments,
                        [index |-> i, start |-> i * chunkDuration, length |-> chunkDuration])
                  /\ spc' = (IF i + 1 < splitN THEN "chunk" ELSE "done")
             ELSE /\ segments' = <<>>
                  /\ spc' = "failed"
    /\ UNCHANGED chunkDuration
    /\ UNCHANGED <<audioDuration, splitN, classifier, decoding, lookups, signals, normalizer,
                   kind, acquisition, whisper, locks, cancelled>>

\* ------------------------------------------------------------------- Next
\* Single-item entry points.
Next ==
    \/ StartGetTranscript
    \/ StartSummarizeYouTube
    \/ StartFetchTranscript
    \/ StartWhisperTranscribe
    \/ StartGetMetadata
    \/ Return
    \/ Restart
    \/ GTCheckCache
    \/ GTMetadata
    \/ GTFetch
    \/ GTRetry
    \/ GTReturn
    \/ SYCheckCache
    \/ SYMetadata
    \/ SYFetch
    \/ SYRetry
    \/ WFAsk
    \/ WFAudio
    \/ WFTranscribe
    \/ FTAfterGet
    \/ FTAudio
    \/ FTTranscribe
    \/ WTAudio
    \/ WTTranscribe
    \/ MDFetch

\* The summarize entry point on a video or on a playlist.
NextBatch ==
    \/ StartSummarizeYouTube
    \/ StartSummarizePlaylist
    \/ Return
    \/ Restart
    \/ GTCheckCache
    \/ GTMetadata
    \/ GTFetch
    \/ GTRetry
    \/ SYCheckCache
    \/ SYMetadata
    \/ SYFetch
    \/ SYRetry
    \/ WFAsk
    \/ WFAudio
    \/ WFTranscribe
    \/ PLList
    \/ PLItem
    \/ PLCachedMeta
    \/ PLMeta
    \/ PLAfterGet
    \/ PLAsk
    \/ PLAudio
    \/ PLTranscribe
    \/ PLAppend
    \/ PLEnd

\* One transcription operation after another.
NextWhisper ==
    \/ TStart
    \/ TStat
    \/ TDuration
    \/ TChunk
    \/ TSubmit
    \/ TReturn
    \/ TCleanup
    \/ TFinish

\* Goroutines calling the two map accessors of one App.
NextCache ==
    \/ GetCall
    \/ GetRLock
    \/ GetRead
    \/ GetRUnlock
    \/ SetCall
    \/ SetLock
    \/ SetWrite
    \/ SetUnlock

\* The summarize entry point with the interrupt signal.
NextCancel ==
    \/ StartSummarizeYouTube
    \/ StartSummarizePlaylist
    \/ Return
    \/ Restart
    \/ GTCheckCache
    \/ GTMetadata
    \/ GTFetch
    \/ GTRetry
    \/ SYCheckCache
    \/ SYMetadata
    \/ SYFetch
    \/ SYRetry
    \/ WFAsk
    \/ WFAudio
    \/ WFTranscribe
    \/ PLList
    \/ PLItem
    \/ PLCachedMeta
    \/ PLMeta
    \/ PLAfterGet
    \/ PLAsk
    \/ PLAudio
    \/ PLTranscribe
    \/ PLAppend
    \/ PLEnd
    \/ Cancel
    \/ Exit

Spec == Init /\ [][Next]_vars
SpecBatch == InitBatch /\ [][NextBatch]_vars
SpecWhisper == InitAux /\ [][NextWhisper]_vars
SpecCache == InitAux /\ [][NextCache]_vars
SpecCancel == InitBatch /\ [][NextCancel]_vars

\* The signal handler, its cleanup goroutine and the grace timer.  The
\* handler's own steps and the timer are taken when enabled; the cleanup pass
\* is under no such obligation and may stall at any point.
NextSignal ==
    \/ SignalReceived
    \/ SigCancel
    \/ SigStartCleanup
    \/ CStat
    \/ CReadDir
    \/ CRemove
    \/ CRemoveDir
    \/ CClose
    \/ GraceTimeout
    \/ SigExit
SpecSignal ==
    /\ InitAux
    /\ [][NextSignal]_vars
    /\ WF_vars(SigCancel)
    /\ WF_vars(SigStartCleanup)
    /\ WF_vars(GraceTimeout)
    /\ WF_vars(SigExit)

\* One run of a single-item entry point on an input of any content type.  For
\* an input that does not classify, ParseArg returns the input itself as URL
\* and as ID: vid is then that input.
InitClassify ==
    /\ InitState
    /\ LaterIdle
    /\ srtIn = <<>>
    /\ kind \in ContentTypes
    /\ opCount = MaxOps - 1
    /\ writeFaults = FALSE
NextClassify ==
    \/ StartGetTranscript
    \/ StartSummarizeYouTube
    \/ RootReject
    \/ StartFetchTranscript
    \/ StartWhisperTranscribe
    \/ StartGetMetadata
    \/ Return
    \/ Restart
    \/ GTCheckCache
    \/ GTMetadata
    \/ GTFetch
    \/ GTRetry
    \/ GTReturn
    \/ SYCheckCache
    \/ SYMetadata
    \/ SYFetch
    \/ SYRetry
    \/ WFAsk
    \/ WFAudio
    \/ WFTranscribe
    \/ FTAfterGet
    \/ FTAudio
    \/ FTTranscribe
    \/ WTAudio
    \/ WTTranscribe
    \/ MDFetch
SpecClassify == InitClassify /\ [][NextClassify]_vars

\* The normalizer applied to every subtitle file of up to MaxBlocks blocks.
\* The classifier on one raw input.
InitParse ==
    /\ InitState
    /\ transcripts = [id \in IDs |-> NoTranscript]
    /\ rawArg \in RawInputs
    /\ rawData = NoRawData
    /\ audioDuration = 0
    /\ splitN = 0
    /\ srtIn = <<>>
    /\ kind = "video"
    /\ opCount = 0
    /\ writeFaults = FALSE
NextParse ==
    \/ Classify
    \/ Dispatch
SpecParse == InitParse /\ [][NextParse]_vars

\* The decoding of one yt-dlp response.
InitDecode ==
    /\ InitState
    /\ transcripts = [id \in IDs |-> NoTranscript]
    /\ rawArg = NoInput
    /\ rawData \in RawResponses
    /\ audioDuration = 0
    /\ splitN = 0
    /\ srtIn = <<>>
    /\ kind = "video"
    /\ opCount = 0
    /\ writeFaults = FALSE
NextDecode ==
    \/ UnmarshalRaw
    \/ UnmarshalStruct
    \/ ExtractSubtitles
SpecDecode == InitDecode /\ [][NextDecode]_vars

\* Lookups on one App whose two cache tiers are empty.
InitLookup ==
    /\ InitState
    /\ LaterIdle
    /\ transcripts = [id \in IDs |-> NoTranscript]
    /\ srtIn = <<>>
    /\ kind = "video"
    /\ opCount = 0
    /\ writeFaults = FALSE
NextLookup ==
    \/ \E g \in Goroutines : LookupStart(g)
    \/ \E g \in Goroutines : LookupMemory(g)
    \/ \E g \in Goroutines : LookupDisk(g)
    \/ \E g \in Goroutines : LookupFetch(g)
    \/ \E g \in Goroutines : LookupSave(g)
    \/ \E g \in Goroutines : LookupSet(g)
SpecLookup == InitLookup /\ [][NextLookup]_vars

\* Audio.Split on one audio file.
InitSplit ==
    /\ InitState
    /\ transcripts = [id \in IDs |-> NoTranscript]
    /\ rawArg = NoInput
    /\ rawData = NoRawData
    /\ audioDuration \in 0..MaxDuration
    /\ splitN \in 2..MaxSplit
    /\ srtIn = <<>>
    /\ kind = "video"
    /\ opCount = 0
    /\ writeFaults = FALSE
NextSplit ==
    \/ SplitDuration
    \/ SplitChunk
SpecSplit == InitSplit /\ [][NextSplit]_vars

InitNormalize ==
    /\ InitState
    /\ LaterIdle
    /\ transcripts = [id \in IDs |-> NoTranscript]
    /\ opCount = 0
    /\ writeFaults = FALSE
    /\ srtIn \in SrtInputs
    /\ kind = "video"
NextNormalize ==
    \/ NParse
    \/ NDedup
    \/ NJoin
    \/ NAgain
SpecNormalize == InitNormalize /\ [][NextNormalize]_vars

\* ================================================================ claims
IsCaptionEvent(e) == e \in CaptionEvents
CaptionSeq == SelectSeq(trace, IsCaptionEvent)
SingleAcquisition == op \in {"GetTranscript", "SummarizeYouTube"}
YieldedPositions == {yielded[k].pos : k \in 1..Len(yielded)}
SkippedPositions == {skippedVideos[k].index : k \in 1..Len(skippedVideos)}
BatchFinished == op = "SummarizePlaylist" /\ pc = "done" /\ Len(playlist) > 0

\* C1 (as claimed): an acquisition that starts with the transcript file in the
\* store returns exactly the stored contents and invokes no external
\* collaborator.
C1_AsClaimed ==
    (SingleAcquisition /\ hadFile /\ pc = "done")
        => (result = Success(transcripts[vid].text) /\ Count(trace, ExternalEvents) = 0)

\* C1 (amended): an acquisition that starts with the transcript file in the
\* store invokes no external collaborator and leaves the store alone; it returns
\* exactly the stored contents when the file can be read, and fails with the
\* read error when it cannot.
C1_CacheHitShortCircuit ==
    (SingleAcquisition /\ hadFile)
        => /\ Count(trace, ExternalEvents) = 0
           /\ transcripts[vid].exists
           /\ pc = "done" =>
                 \/ Has(trace, "cache_hit") /\ result = Success(transcripts[vid].text)
                 \/ Has(trace, "read_error") /\ result = Failure("read")

C1_Witness ==
    /\ op = "SummarizeYouTube"
    /\ pc = "done"
    /\ hadFile
    /\ trace = <<"cache_hit">>
    /\ result = Success(StoredText)

\* C2: in the single-item pipeline and in the batch loop, audio download and
\* transcription run for an item only after the caller pre-authorized the paid
\* fallback or the prompt asked for that item (the trace is per item) was
\* answered yes.
C2_PaidFallbackAuthorized ==
    (op \in {"SummarizeYouTube", "SummarizePlaylist"})
        => \A i \in 1..Len(trace) :
              trace[i] \in PaidEvents
                 => (fallbackWhisper \/ \E j \in 1..(i - 1) : trace[j] = "ask_yes")

C2_Witness ==
    /\ op = "SummarizePlaylist"
    /\ ~fallbackWhisper
    /\ idx >= 2
    /\ \E k \in 1..Len(skippedVideos) : skippedVideos[k].label = NoLabel
    /\ Has(trace, "ask_yes")
    /\ Has(trace, "transcribe_ok")

\* C3: when the paid transcription completed and the entry point returns
\* success, the returned transcript is in the store under the video's ID.
C3_PersistedBeforeSuccess ==
    (pc = "done" /\ result.status = "ok" /\ Has(trace, "transcribe_ok"))
        => transcripts[vid] = TranscriptFile(result.text)

\* C4: a stored transcript is never empty, and an acquisition that ends in
\* failure leaves no transcript file for an ID that had none.
C4_StoreOnlyOnSuccess ==
    /\ \A id \in IDs : transcripts[id].exists => transcripts[id].text # <<>>
    /\ (pc = "done" /\ result.status = "fail" /\ ~hadFile) => ~transcripts[vid].exists

\* C5: in the single-item pipeline, when metadata reports captions and the
\* caption fetch ends without a transcript, the pipeline goes on to the
\* fallback decision (prompt, or audio transcription when pre-authorized).
C5_CaptionFailureFallsBack ==
    (op = "SummarizeYouTube" /\ pc = "done" /\ metadata.hasCaptions
       /\ Len(CaptionSeq) > 0 /\ CaptionSeq[Len(CaptionSeq)] # "captions_ok")
        => \E i \in 1..Len(trace) : trace[i] \in {"ask_yes", "ask_no", "audio_ok", "audio_err"}

\* C6: within one acquisition the caption fetch is invoked at most twice; a
\* second invocation means the first failed with the retryable sentinel, a
\* first failure with the sentinel is always followed by the second invocation,
\* and nothing follows the second.
C6_SingleRetry ==
    /\ Len(CaptionSeq) <= 2
    /\ Len(CaptionSeq) = 2 => CaptionSeq[1] = "captions_download"
    /\ (Len(CaptionSeq) = 1 /\ CaptionSeq[1] = "captions_download") => pc \in {"gt_retry", "sy_retry"}
    /\ pc \in {"gt_retry", "sy_retry"} => CaptionSeq = <<"captions_download">>

C6_Witness ==
    /\ pc = "done"
    /\ CaptionSeq = <<"captions_download", "captions_download">>
    /\ result = Failure("notranscript")

\* C7: the batch loop starts the iterations 1, 2, ... in order, each once, and
\* reaches the code after the loop only when all N items have been processed,
\* whatever the outcome of each item.
C7_AllItemsProcessed ==
    (op = "SummarizePlaylist")
        => /\ processed = [i \in 1..Len(processed) |-> i]
           /\ Len(processed) <= Len(playlist)
           /\ pc \in {"pl_item"} => Len(processed) = idx - 1
           /\ (pc = "pl_end" \/ BatchFinished) => Len(processed) = Len(playlist)

C7_Witness ==
    /\ BatchFinished
    /\ Len(playlist) = 3
    /\ processed = <<1, 2, 3>>
    /\ Len(skippedVideos) = 2
    /\ skippedVideos[1].index = 1
    /\ skippedVideos[1].label = "metadata error"
    /\ skippedVideos[2].index = 2
    /\ skippedVideos[2].label = "audio error"
    /\ Len(videoTranscripts) = 1

\* C8: for every item counted as successful, its block of the combined
\* transcript carries the text acquired for it.
C8_BlocksCarryAcquiredText ==
    (BatchFinished /\ result.status = "ok")
        => /\ Len(combined.blocks) = Len(yielded)
           /\ \A k \in 1..Len(yielded) : combined.blocks[k].transcript = yielded[k].text

\* C9: the combined transcript has one block per item that yielded a
\* transcript, none for a skipped item, in playlist order.
C9_BlocksAreTheSuccesses ==
    (BatchFinished /\ result.status = "ok")
        => /\ Len(combined.blocks) = Len(yielded)
           /\ \A k \in 1..Len(yielded) :
                 /\ videoTranscripts[k].url = playlist[yielded[k].pos]
                 /\ combined.blocks[k].title = videoTranscripts[k].title
                 /\ combined.blocks[k].title \in {TitleOf(playlist[yielded[k].pos]),
                                                   PlaceholderMetadata(yielded[k].pos).title}
                 /\ combined.blocks[k].n = k
                 /\ yielded[k].pos \notin SkippedPositions
           /\ \A k \in 1..(Len(yielded) - 1) : yielded[k].pos < yielded[k + 1].pos
           /\ YieldedPositions \cup SkippedPositions = 1..Len(playlist)

C9_Witness ==
    /\ BatchFinished
    /\ Len(playlist) = 3
    /\ skippedVideos = <<SkipEntry(2, TitleOf(playlist[2]), NoLabel)>>
    /\ Len(combined.blocks) = 2
    /\ combined.blocks[1].title = TitleOf(playlist[1])
    /\ combined.blocks[2].title = TitleOf(playlist[3])

\* C10: in the printed report every item that yielded no transcript appears
\* exactly once, by position, with its title when its metadata was obtained
\* and with its failure category.
C10_SkipReportComplete ==
    (BatchFinished /\ report.printed)
        => \A p \in 1..Len(playlist) :
              p \notin YieldedPositions
                 => /\ Cardinality({k \in 1..Len(report.skipped) : report.skipped[k].index = p}) = 1
                    /\ \A k \in 1..Len(report.skipped) :
                          report.skipped[k].index = p => report.skipped[k].label # NoLabel

\* C11: a batch run fails exactly when the listing fails, the expansion is
\* empty, or no item yielded a transcript; with one item or more yielding a
\* transcript it builds the combined transcript, whatever the other items did.
C11_HardFailureOnlyOnZero ==
    (op = "SummarizePlaylist" /\ pc = "done")
        => /\ result.status \in {"ok", "fail"}
           /\ result.status = "fail" <=> Len(yielded) = 0
           /\ result.status = "fail" =>
                 /\ result.reason \in {"listing", "no_videos", "no_transcripts"}
                 /\ result.reason = "no_transcripts" <=> Len(playlist) > 0
                 /\ combined = NoCombined
           /\ Len(yielded) > 0 =>
                 /\ result.status = "ok"
                 /\ Len(combined.blocks) = Len(yielded)
                 /\ Len(skippedVideos) = Len(playlist) - Len(yielded)

C11_Witness ==
    /\ BatchFinished
    /\ result.status = "ok"
    /\ Len(playlist) = 3
    /\ Len(yielded) = 1
    /\ Len(skippedVideos) = 2
    /\ Len(combined.blocks) = 1

FetchPcs == {"gt_fetch", "gt_retry", "sy_fetch", "sy_retry"}

\* C12: once the metadata of the item says there are no captions, the caption
\* fetch is not invoked for that item, and the step after the metadata lookup
\* is the fallback decision: the prompt or, when pre-authorized, the audio
\* download (in the batch loop, through the error GetTranscript returns).
C12_NoCaptionsSkipsFetch ==
    [][/\ (metadata'.present /\ ~metadata'.hasCaptions)
             => (Count(trace', CaptionEvents) = 0 /\ pc' \notin FetchPcs)
       /\ (pc = "sy_meta" /\ metadata'.present /\ ~metadata'.hasCaptions)
             => pc' = (IF fallbackWhisper THEN "wf_audio" ELSE "wf_ask")
       /\ (op = "SummarizePlaylist" /\ pc = "gt_meta" /\ ~metadata.hasCaptions)
             => (pc' = "gt_ret" /\ gt'.err = "nocaptions")
       /\ (op = "SummarizePlaylist" /\ pc = "gt_ret" /\ gt.err = "nocaptions")
             => pc' = (IF fallbackWhisper THEN "pl_audio" ELSE "pl_ask")]_vars

C12_Witness ==
    /\ op = "SummarizePlaylist"
    /\ pc = "pl_ask"
    /\ metadata.present
    /\ ~metadata.hasCaptions
    /\ gt.err = "nocaptions"
    /\ trace = <<"meta_fetch">>

NonRetryable == {"captions_empty", "captions_other"}

\* C13: an empty caption result and a non-retryable caption failure are
\* handled alike: nothing is fetched after either, GetTranscript returns the
\* same error for both, the single-item pipeline ends with the same failure
\* for both, and no acquisition that fetched captions succeeds with an empty
\* text.
C13_EmptyIsFailure ==
    /\ \A k \in 1..Len(CaptionSeq) :
          CaptionSeq[k] \in NonRetryable
             => /\ k = Len(CaptionSeq)
                /\ pc \notin FetchPcs
                /\ pc = "gt_ret" => gt = [text |-> <<>>, err |-> "notranscript"]
                /\ (op \in {"GetTranscript", "SummarizeYouTube"} /\ pc = "done")
                      => result = Failure("notranscript")
    /\ (pc = "gt_ret" /\ gt.err = Nil /\ Len(CaptionSeq) > 0) => gt.text # <<>>
    /\ (op \in {"GetTranscript", "SummarizeYouTube"} /\ pc = "done" /\ result.status = "ok"
          /\ Len(CaptionSeq) > 0)
          => result.text # <<>>

C13_Witness ==
    /\ op = "SummarizeYouTube"
    /\ pc = "done"
    /\ CaptionSeq = <<"captions_empty">>
    /\ result = Failure("notranscript")

\* C14: at most one transcription call is in flight; chunks are submitted in
\* index order, each after the previous call has returned, and none after a
\* chunk has failed.
C14_OneCallInFlight ==
    /\ Cardinality(inFlight) <= 1
    /\ Len(submitted) <= Len(chunks)
    /\ submitted = SubSeq(chunks, 1, Len(submitted))
    /\ inFlight # {} =>
          /\ inFlight = {submitted[Len(submitted)]}
          /\ Len(texts) = Len(submitted) - 1
          /\ failedAt = 0
    /\ (inFlight = {} /\ failedAt = 0) => Len(texts) = Len(submitted)
    /\ failedAt > 0 =>
          /\ inFlight = {}
          /\ Len(submitted) <= failedAt
          /\ Len(texts) = failedAt - 1
          /\ tpc \in {"t_cleanup", "t_returned"}

C14_Witness ==
    /\ tpc = "t_returned"
    /\ Len(chunks) = 3
    /\ failedAt = 2
    /\ submitted = <<1, 2>>
    /\ tresult = Failure("chunk")

\* C15: the number of chunks is the ceiling of size / limit: a file within
\* the limit is transcribed as it is, without a split, and one byte over the
\* limit gives two chunks; a successful transcription has transcribed exactly
\* that many chunks.
C15_ChunkCountIsCeiling ==
    numChunks > 0 =>
        /\ numChunks * whisperLimit >= fileSize
        /\ (numChunks - 1) * whisperLimit < fileSize
        /\ fileSize <= whisperLimit =>
              /\ numChunks = 1
              /\ chunks = <<AudioFile>>
              /\ created = {}
              /\ tpc \notin {"t_duration", "t_chunk"}
        /\ fileSize = whisperLimit + 1 => numChunks = 2
        /\ tresult.status = "ok" => (Len(submitted) = numChunks /\ Len(texts) = numChunks)

C15_Witness ==
    /\ tpc = "t_returned"
    /\ tresult.status = "ok"
    /\ whisperLimit = 2
    /\ fileSize = 3
    /\ submitted = <<1, 2>>

\* C16: a successful transcription returns the chunk texts in chunk order,
\* one newline between consecutive texts and none at the end.
C16_JoinedInOrder ==
    tresult.status = "ok" =>
        /\ Len(texts) = Len(chunks)
        /\ tresult.text = JoinLines(texts)

C16_Witness ==
    /\ tpc = "t_returned"
    /\ texts = <<<<1>>, <<>>, <<2>>>>
    /\ tresult = Success(<<1, NL, NL, 2>>)

C18_FetchOnlyOnMiss ==
    [][(Len(trace') = Len(trace) + 1 /\ trace'[Len(trace')] = "meta_fetch")
          => (~metadataCache[vid].present /\ ~metaFiles[vid].present)]_vars

MapReaders == {g \in Goroutines : gpc[g] = "get_read"}
MapWriters == {g \in Goroutines : gpc[g] = "set_write"}

\* C19: while a goroutine writes the in-process metadata map no other
\* goroutine reads or writes it; the lock's counters agree with the goroutines
\* inside the accessors.
C19_ExclusiveWriter ==
    /\ Cardinality(MapWriters) <= 1
    /\ MapWriters # {} => MapReaders = {}
    /\ readerCount = Cardinality({g \in Goroutines : gpc[g] \in {"get_read", "get_runlock"}})
    /\ writerHeld <=> \E g \in Goroutines : gpc[g] \in {"set_write", "set_unlock"}
    /\ writerHeld => readerCount = 0

\* Two reads of the map overlap while a writer waits for the lock.
C19_Witness ==
    /\ Cardinality(MapReaders) = 2
    /\ WriterWaiting

RetryPcs == {"gt_retry", "sy_retry"}

\* C20: once the context is cancelled the pipeline takes no further step: it
\* does not start the next batch item, does not show a confirmation prompt,
\* does not enter the retry delay and does not fetch again after it.
C20_AbortOnCancel ==
    [][cancelled =>
          /\ processed' = processed
          /\ ~(Len(trace') = Len(trace) + 1 /\ trace'[Len(trace')] \in {"ask_yes", "ask_no"})
          /\ pc' \in RetryPcs => pc' = pc
          /\ pc \in RetryPcs => pc' \in {pc, "exited"}]_vars


\* C21: once an interrupt or termination signal has been received, the run
\* context is cancelled and a cleanup pass is started before the handler
\* waits; the process exits only when the cleanup pass has finished or the
\* grace timeout has fired, and it always does exit, even when the cleanup
\* pass never finishes.
C21_SignalLeadsToExit ==
    /\ [](sig \in {"select", "exited"} => cancelled /\ cleanupPc # "none")
    /\ [](sig = "exited" => cleanupPc = "done" \/ timerFired)
    /\ (sig = "received" ~> sig = "exited")
C21_Witness == sig = "exited" /\ cleanupPc \notin {"none", "done"} /\ timerFired

\* C22: the deduplication is idempotent: applied to the lines it returned,
\* it returns them unchanged.
C22_Idempotent == npc = "again" => again = kept

\* The deduplication as C23 describes it: each line is compared with the most
\* recently kept line.
RECURSIVE DedupAgainstKept(_, _)
DedupAgainstKept(ls, lastKept) ==
    IF ls = <<>> THEN <<>>
    ELSE LET line == Head(ls)
             related == lastKept # <<>> /\ (Contains(line, lastKept) \/ Contains(lastKept, line))
         IN  IF related THEN DedupAgainstKept(Tail(ls), lastKept)
             ELSE <<line>> \o DedupAgainstKept(Tail(ls), line)

\* C23: the deduplication drops a line exactly when it and the most recently
\* kept line are in a substring relation, in either direction; a dropped line
\* is not what the next line is compared with.
C23_ComparesWithLastKept ==
    npc \in {"deduped", "joined", "again"} => kept = DedupAgainstKept(parsed, <<>>)

\* C24: two blocks with the texts "hello world" and "hello world there"
\* normalize to the single line "hello world there".
C24_LaterSubsumingLineKept ==
    (npc \in {"joined", "again"} /\ parsed = <<HelloWorld, HelloWorldThere>>)
        => normalized = HelloWorldThere

\* C25: no two consecutive lines of a normalized text are equal or in a
\* substring relation.
C25_NoConsecutiveOverlap ==
    npc \in {"joined", "again"} =>
        \A k \in 1..(Len(kept) - 1) :
            ~(Contains(kept[k], kept[k + 1]) \/ Contains(kept[k + 1], kept[k]))

\* C26: a transcript file that exists in the store is neither rewritten with
\* different contents nor deleted by any step of the pipeline.
C26_StoredTranscriptKept ==
    [][\A id \in IDs : transcripts[id].exists => transcripts'[id] = transcripts[id]]_vars

\* The skip labels and failure reasons of technical failures.
TechnicalLabels == {"cache read error", "metadata error", "audio error", "transcription error"}
TechnicalReasons == {"read", "metadata", "notranscript", "audio", "transcription"}

\* C27: a declined fallback prompt ends the acquisition in a failure that
\* differs from every technical failure, and neither the audio download nor
\* the transcription runs after the decline: the single-item pipeline ends
\* with the declined error exactly when the prompt was declined, a batch
\* item whose prompt was declined is skipped at once, the skip entries
\* without a technical label are exactly those of declined prompts, and the
\* event after a decline is never an audio download or a transcription.
C27_DeclineDistinctAndFinal ==
    /\ [](\A k \in 1..Len(trace) :
            trace[k] = "ask_no" => (k = Len(trace) \/ trace[k + 1] \notin PaidEvents))
    /\ []((op = "SummarizeYouTube" /\ pc = "done") =>
            /\ Has(trace, "ask_no") <=>
                   (result.status = "fail" /\ result.reason \notin TechnicalReasons)
            /\ Has(trace, "ask_no") => trace[Len(trace)] = "ask_no")
    /\ [][/\ (pc = "pl_ask" /\ pc' # "pl_audio") =>
                /\ pc' \in {"pl_item", "pl_end"}
                /\ Len(skippedVideos') = Len(skippedVideos) + 1
          /\ Len(skippedVideos') > Len(skippedVideos) =>
                (skippedVideos'[Len(skippedVideos')].label \notin TechnicalLabels
                    <=> pc = "pl_ask")]_vars
C27_Witness ==
    /\ op = "SummarizeYouTube"
    /\ pc = "done"
    /\ result = Declined
    /\ Has(trace, "ask_no")

C30_UnclassifiedInputRejected ==
    ~IsValid(kind) =>
        /\ pc \in {"idle", "done"}
        /\ trace = <<>>
        /\ (pc = "done" => result.status = "fail")

\* C31: a bare token of one of the playlist shapes (PL and 16 or 32
\* characters; another known prefix at 18 or 34 characters in all; a music-mix
\* prefix at 40 characters in all) is classified Playlist.
C31_PlaylistShapesArePlaylists ==
    (ppc # "idle" /\ ~rawArg.isURL /\ IsValidPlaylistID(rawArg.token))
        => parsedArg.contentType = "playlist"

\* C32: a bare token of exactly 11 characters out of letters, digits, - and _
\* is classified Video, its URL the watch template on the token and its ID
\* the token, whatever else the token matches.
C32_ElevenCharactersAreAVideo ==
    (ppc # "idle" /\ ~rawArg.isURL /\ Len(rawArg.token) = 11
        /\ MatchAll(rawArg.token, IDChars))
        => parsedArg = Valid("video", WatchTemplate, rawArg.token)

C32_Witness ==
    /\ ppc # "idle"
    /\ ~rawArg.isURL
    /\ Len(rawArg.token) = 11
    /\ detectCommand(rawArg.token)
    /\ detectChannelHandle(rawArg.token)
    /\ parsedArg = Valid("video", WatchTemplate, rawArg.token)

\* The /watch URLs that carry a valid video ID and a valid playlist ID.
WatchWithBoth ==
    /\ rawArg.isURL
    /\ ~rawArg.malformed
    /\ HasPrefix(rawArg.path, <<47, 119, 97, 116, 99, 104>>)
    /\ detectVideoID(rawArg.v)
    /\ IsValidPlaylistID(rawArg.list)

\* C33 as stated: on each of the three hosts the classifier accepts, a /watch
\* URL with a valid v= and a valid list= is classified Video.
C33_AsStated ==
    (ppc # "idle" /\ WatchWithBoth
        /\ HostToLower(rawArg.host) \in {"www.youtube.com", "youtube.com", "youtu.be"})
        => parsedArg = Valid("video", WatchTemplate, rawArg.v)

\* C33: on www.youtube.com and youtube.com, a /watch URL with a valid v= and
\* a valid list= is classified Video with the video's ID and URL, and a /watch
\* URL is classified Playlist only when it has no valid video ID.
C33_VideoWinsOnWatch ==
    /\ (ppc # "idle" /\ WatchWithBoth
          /\ HostToLower(rawArg.host) \in {"www.youtube.com", "youtube.com"})
          => parsedArg = Valid("video", WatchTemplate, rawArg.v)
    /\ (ppc # "idle" /\ rawArg.isURL
          /\ HasPrefix(rawArg.path, <<47, 119, 97, 116, 99, 104>>)
          /\ parsedArg.contentType = "playlist")
          => ~detectVideoID(rawArg.v)

C33_Witness ==
    /\ ppc # "idle"
    /\ WatchWithBoth
    /\ rawArg.host = "YouTube.com"
    /\ parsedArg = Valid("video", WatchTemplate, rawArg.v)

\* C34: a reference has an error exactly when its kind is Unknown or Command;
\* a Video, Playlist or Channel reference has a non-empty ID and URL; IsValid
\* holds exactly for those three kinds.
C34_ErrorIffUnknownOrCommand ==
    ppc # "idle" =>
        /\ parsedArg.contentType \in {"video", "playlist", "channel", "command", "unknown"}
        /\ parsedArg.err # Nil <=> parsedArg.contentType \in {"unknown", "command"}
        /\ parsedArg.contentType \in {"video", "playlist", "channel"}
              => (parsedArg.id # <<>> /\ parsedArg.url[1] # "" /\ parsedArg.url[2] # <<>>)
        /\ ParsedIsValid(parsedArg) <=> parsedArg.contentType \in {"video", "playlist", "channel"}

C34_Witness ==
    /\ ppc # "idle"
    /\ parsedArg.contentType = "command"
    /\ parsedArg.err # Nil
    /\ ~ParsedIsValid(parsedArg)

\* C35: the decoded hasCaptions is true exactly when the response has at
\* least one manual subtitle track or at least one automatic caption track,
\* whatever the response's own has_captions field says.
C35_HasCaptionsIffSomeTrack ==
    epc = "done" =>
        (extracted <=>
            \/ (rawData.subtitles.shape = "map" /\ rawData.subtitles.tracks >= 1)
            \/ (rawData.automatic_captions.shape = "map"
                   /\ rawData.automatic_captions.tracks >= 1))

C35_Witness ==
    /\ epc = "done"
    /\ rawData.has_captions = "true"
    /\ rawData.subtitles.shape = "map"
    /\ rawData.subtitles.tracks = 0
    /\ rawData.automatic_captions.shape = "null"
    /\ ~extracted

\* The steps of the single-item pipeline in their order, as positions and
\* as the events they leave.
StepRank(p) ==
    CASE p = "sy_cache" -> 1
      [] p = "sy_meta" -> 2
      [] p = "sy_fetch" -> 3
      [] p = "sy_retry" -> 4
      [] p = "wf_ask" -> 5
      [] p = "wf_audio" -> 6
      [] p = "wf_transcribe" -> 7
      [] OTHER -> 8
EventRank(e) ==
    CASE e \in {"cache_hit", "read_error"} -> 1
      [] e = "meta_fetch" -> 2
      [] e \in CaptionEvents -> 3
      [] e \in {"ask_yes", "ask_no"} -> 5
      [] e \in {"audio_ok", "audio_err"} -> 6
      [] e \in {"transcribe_ok", "transcribe_err"} -> 7
      [] OTHER -> 8

\* C36: in a single-item acquisition the steps run in pipeline order only:
\* cache check, metadata lookup, caption fetch with at most one retry,
\* fallback decision, one audio download, transcription, persistence; a step
\* starts only when the ones before it are done, and audio is downloaded at
\* most once.
C36_PipelineOrder ==
    /\ [](op = "SummarizeYouTube" =>
            /\ \A i, j \in 1..Len(trace) :
                 i < j => /\ EventRank(trace[i]) <= EventRank(trace[j])
                          /\ EventRank(trace[i]) = EventRank(trace[j])
                                => trace[i] \in CaptionEvents
            /\ Count(trace, CaptionEvents) <= 2
            /\ Count(trace, {"audio_ok", "audio_err"}) <= 1
            /\ pc \in {"sy_fetch", "sy_retry"} => (~hadFile /\ metadata.present)
            /\ pc \in {"wf_ask", "wf_audio", "wf_transcribe"} => (~hadFile /\ metadata.present)
            /\ pc = "wf_transcribe" => Count(trace, {"audio_ok"}) = 1
            /\ Has(trace, "transcribe_ok") => Has(trace, "audio_ok")
            /\ (Has(trace, "save_ok") \/ Has(trace, "save_err")) => Has(trace, "transcribe_ok"))
    /\ [][(op = "SummarizeYouTube" /\ op' = op) => StepRank(pc') > StepRank(pc)]_vars

C36_Witness ==
    /\ op = "SummarizeYouTube"
    /\ pc = "done"
    /\ trace = <<"meta_fetch", "ask_yes", "audio_ok", "transcribe_ok", "save_ok">>

\* C37: when the batch loop has ended, the successful transcripts and the
\* skip entries together are as many as the expanded items.
C37_EveryItemCounted ==
    (op = "SummarizePlaylist" /\ pc \in {"pl_end", "done"} /\ Len(playlist) > 0)
        => /\ Len(videoTranscripts) + Len(skippedVideos) = Len(playlist)
           /\ Len(yielded) = Len(videoTranscripts)
           /\ YieldedPositions \cap SkippedPositions = {}
           /\ YieldedPositions \cup SkippedPositions = 1..Len(playlist)

C37_Witness ==
    /\ op = "SummarizePlaylist"
    /\ pc = "pl_end"
    /\ Len(playlist) = MaxItems
    /\ Len(videoTranscripts) >= 1
    /\ Len(skippedVideos) >= 1
    /\ Len(videoTranscripts) + Len(skippedVideos) = Len(playlist)

\* C38: of the metadata lookups one App runs for an ID that starts in
\* neither cache tier, at most one gets metadata from the download tool, and
\* the lookups that return metadata for the ID return the same metadata.
C38_OneFetchPerID ==
    \A id \in IDs :
        /\ Cardinality({k \in 1..Len(fetchLog) : fetchLog[k].id = id /\ fetchLog[k].ok}) <= 1
        /\ \A g, h \in Goroutines :
             (lpc[g] = "done" /\ lpc[h] = "done" /\ lres[g].id = id /\ lres[h].id = id
                 /\ ~lres[g].err /\ ~lres[h].err)
                 => lres[g].m = lres[h].m

\* C39: Split into n >= 2 chunks returns n chunks in index order, chunk i
\* starting at i*d with length d, where d is the duration divided by n and
\* rounded up to whole seconds: the chunks follow one another without gap or
\* overlap, have one nominal length, and n*d is at least the duration.
C39_ChunksTileTheAudio ==
    spc = "done" =>
        /\ Len(segments) = splitN
        /\ chunkDuration * splitN * DurationUnit >= audioDuration
        /\ chunkDuration > 0 => (chunkDuration - 1) * splitN * DurationUnit < audioDuration
        /\ \A k \in 1..Len(segments) :
             /\ segments[k].index = k - 1
             /\ segments[k].start = (k - 1) * chunkDuration
             /\ segments[k].length = chunkDuration
             /\ k > 1 => segments[k].start = segments[k - 1].start + segments[k - 1].length

C39_Witness ==
    /\ spc = "done"
    /\ splitN >= 3
    /\ Len(segments) = splitN
    /\ chunkDuration >= 2
    /\ chunkDuration * splitN * DurationUnit > audioDuration

\* C40: the summarize entry point hands only Video references to the
\* single-item pipeline and only Playlist references to the batch
\* orchestrator, so a Channel reference reaches neither.
C40_OnlyVideoAndPlaylistDispatched ==
    /\ ppc = "single" => parsedArg.contentType = "video"
    /\ ppc = "batch" => parsedArg.contentType = "playlist"
    /\ parsedArg.contentType = "channel" => ppc \notin {"single", "batch"}

====
